---------------------------- MODULE Spec2Model ----------------------------
(***************************************************************************)
(* Position extraction and aggregation of chess-memory.                    *)
(*                                                                         *)
(* The model follows backend/scripts/2_build_database_from_games.py: the   *)
(* loop over input files and games, the replay of one game ply by ply      *)
(* (clock tracking, position key, video link, move attribution), the       *)
(* INSERT/UPDATE merge of the per-game map into the positions table and    *)
(* the commit after each file.                                             *)
(*                                                                         *)
(* The board is python-chess's Board restricted to a fragment of chess:    *)
(* the e-pawns, black's d-pawn, the king's knights and white's king, on    *)
(* the squares those pieces can reach with the moves of MoveTable.  Every  *)
(* move of the fragment is legal chess in every position the fragment      *)
(* reaches, and no position of the fragment is a check.                    *)
(***************************************************************************)
EXTENDS Integers, Sequences, FiniteSets, Bags, TLC

(***************************************************************************)
(* Bounds of the model.                                                    *)
(***************************************************************************)
MaxPlies == 6
MaxGames == 3
MaxRestarts == 1
MaxClockPlies == 4
MaxGapPlies == 5
MaxCsvRows == 2
MaxRuns == 4

None == "None"

----------------------------------------------------------------------------
(***************************************************************************)
(* chess.Board, restricted to the fragment.                                *)
(***************************************************************************)
Squares ==
    {"e1", "e2", "e3", "e4", "e5", "e6", "e7",
     "d4", "d5", "d6", "d7", "f4", "f5", "c5",
     "g1", "f3", "g8", "f6"}

Empty == "."

\* chess.STARTING_BOARD_FEN on the squares of the fragment.
StartPlacement ==
    [s \in Squares |->
        CASE s = "e1" -> "K"
          [] s = "e2" -> "P"
          [] s = "g1" -> "N"
          [] s = "e7" -> "p"
          [] s = "d7" -> "p"
          [] s = "g8" -> "n"
          [] OTHER    -> Empty]

\* game.board() of a game without a FEN header: chess.Board().
StartBoard ==
    [sq |-> StartPlacement, turn |-> "w", castling |-> {"K", "Q", "k", "q"},
     ep_square |-> None, halfmove_clock |-> 0, fullmove_number |-> 1]

\* The moves of the fragment: kind is push, double, ep, knight or king;
\* mid is the square a double push passes (and its en-passant square),
\* cap the square of the pawn an en-passant capture removes.
MoveTable ==
    { [side |-> "w", from |-> "e2", to |-> "e3", kind |-> "push",   mid |-> None, cap |-> None, san |-> "e3"],
      [side |-> "w", from |-> "e2", to |-> "e4", kind |-> "double", mid |-> "e3", cap |-> None, san |-> "e4"],
      [side |-> "w", from |-> "e3", to |-> "e4", kind |-> "push",   mid |-> None, cap |-> None, san |-> "e4"],
      [side |-> "w", from |-> "e4", to |-> "e5", kind |-> "push",   mid |-> None, cap |-> None, san |-> "e5"],
      [side |-> "w", from |-> "e5", to |-> "d6", kind |-> "ep",     mid |-> None, cap |-> "d5", san |-> "exd6"],
      [side |-> "w", from |-> "g1", to |-> "f3", kind |-> "knight", mid |-> None, cap |-> None, san |-> "Nf3"],
      [side |-> "w", from |-> "f3", to |-> "g1", kind |-> "knight", mid |-> None, cap |-> None, san |-> "Ng1"],
      [side |-> "w", from |-> "e1", to |-> "e2", kind |-> "king",   mid |-> None, cap |-> None, san |-> "Ke2"],
      [side |-> "w", from |-> "e2", to |-> "e1", kind |-> "king",   mid |-> None, cap |-> None, san |-> "Ke1"],
      [side |-> "b", from |-> "e7", to |-> "e6", kind |-> "push",   mid |-> None, cap |-> None, san |-> "e6"],
      [side |-> "b", from |-> "e7", to |-> "e5", kind |-> "double", mid |-> "e6", cap |-> None, san |-> "e5"],
      [side |-> "b", from |-> "e6", to |-> "e5", kind |-> "push",   mid |-> None, cap |-> None, san |-> "e5"],
      [side |-> "b", from |-> "d7", to |-> "d5", kind |-> "double", mid |-> "d6", cap |-> None, san |-> "d5"],
      [side |-> "b", from |-> "g8", to |-> "f6", kind |-> "knight", mid |-> None, cap |-> None, san |-> "Nf6"],
      [side |-> "b", from |-> "f6", to |-> "g8", kind |-> "knight", mid |-> None, cap |-> None, san |-> "Ng8"] }

\* What parse_san raises ValueError for, and the move before the first ply.
NoMove == [side |-> "-", from |-> "-", to |-> "-", kind |-> "none",
           mid |-> None, cap |-> None, san |-> "-"]

PieceOf(side, kind) ==
    CASE kind \in {"push", "double", "ep"} -> IF side = "w" THEN "P" ELSE "p"
      [] kind = "knight"                   -> IF side = "w" THEN "N" ELSE "n"
      [] kind = "king"                     -> IF side = "w" THEN "K" ELSE "k"

\* Board.is_legal for a move of the fragment.
IsLegal(b, m) ==
    /\ m.side = b.turn
    /\ b.sq[m.from] = PieceOf(m.side, m.kind)
    /\ CASE m.kind = "push"   -> b.sq[m.to] = Empty
         [] m.kind = "double" -> b.sq[m.mid] = Empty /\ b.sq[m.to] = Empty
         [] m.kind = "ep"     -> b.ep_square = m.to /\ b.sq[m.to] = Empty
         [] m.kind = "knight" -> b.sq[m.to] = Empty
         [] m.kind = "king"   -> b.sq[m.to] = Empty

\* Board.legal_moves, within the fragment.
LegalMoves(b) == {m \in MoveTable : IsLegal(b, m)}

\* Board.parse_san: the one legal move written as the token, or None.
parse_san(b, token) ==
    LET ms == {m \in LegalMoves(b) : m.san = token}
    IN  IF Cardinality(ms) = 1 THEN CHOOSE m \in ms : TRUE ELSE NoMove

\* Board.san of a legal move.
san(b, m) == m.san

\* Board.push: ep_square is set by every double pawn push, whether or not
\* a pawn stands ready to capture.
push(b, m) ==
    LET moved   == [b.sq EXCEPT ![m.from] = Empty, ![m.to] = b.sq[m.from]]
        placed  == IF m.kind = "ep" THEN [moved EXCEPT ![m.cap] = Empty] ELSE moved
        rights  == IF m.kind = "king"
                   THEN b.castling \ (IF m.side = "w" THEN {"K", "Q"} ELSE {"k", "q"})
                   ELSE b.castling
        zeroing == m.kind \in {"push", "double", "ep"}
    IN  [sq |-> placed,
         turn |-> IF b.turn = "w" THEN "b" ELSE "w",
         castling |-> rights,
         ep_square |-> IF m.kind = "double" THEN m.mid ELSE None,
         halfmove_clock |-> IF zeroing THEN 0 ELSE b.halfmove_clock + 1,
         fullmove_number |-> IF b.turn = "b" THEN b.fullmove_number + 1
                             ELSE b.fullmove_number]

\* Board.has_legal_en_passant.
has_legal_en_passant(b) ==
    /\ b.ep_square # None
    /\ \E m \in LegalMoves(b) : m.kind = "ep"

\* Board.board_fen: the piece placement.
board_fen(b) == [s \in Squares |-> b.sq[s]]

\* Board.castling_xfen.
castling_xfen(b) ==
    CASE b.castling = {"K", "Q", "k", "q"} -> "KQkq"
      [] b.castling = {"k", "q"}           -> "kq"
      [] b.castling = {"K", "Q"}           -> "KQ"
      [] OTHER                             -> "-"

\* A variant: the square only when an en-passant capture is legal.
EpComponentLegal(b) == IF has_legal_en_passant(b) THEN b.ep_square ELSE "-"

\* The fourth field as the script writes it: chess.square_name(board.ep_square)
\* if board.ep_square is not None, else '-'.
EpComponent(b) == IF b.ep_square # None THEN b.ep_square ELSE "-"

\* Board.fen(): six fields, the en-passant field only when a capture is legal.
fen(b) ==
    << board_fen(b), b.turn, castling_xfen(b),
       IF has_legal_en_passant(b) THEN b.ep_square ELSE "-",
       b.halfmove_clock, b.fullmove_number >>

\* A variant: the key with the halfmove clock and the fullmove number kept.
fen_normalized_full(b) ==
    << board_fen(b), b.turn, castling_xfen(b), EpComponent(b),
       b.halfmove_clock, b.fullmove_number >>

\* fen_normalized: board layout + turn + castling + en passant.
fen_normalized(b) ==
    << board_fen(b), b.turn, castling_xfen(b), EpComponent(b) >>

\* normalize_fen: the first four space-separated fields.
normalize_fen(fen_parts) == SubSeq(fen_parts, 1, 4)

----------------------------------------------------------------------------
(***************************************************************************)
(* Input: the entries of the game data files.  An entry pairs the csv      *)
(* row (the video reference) with the api game (PGN, usernames), or with   *)
(* null when step 1 found no game.                                         *)
(***************************************************************************)

\* A video reference: the text before the first time parameter, and the
\* time parameters that follow it, each with its delimiter.
UrlShort == [path |-> "youtu.be/A", pathHasQuery |-> FALSE,
             params |-> << [delim |-> "?t=", value |-> 50] >>]
UrlWatch == [path |-> "youtube.com/watch?v=B", pathHasQuery |-> TRUE,
             params |-> << [delim |-> "&t=", value |-> 30] >>]

\* A move comment, as parse_clock reads it: clk when the pattern
\* \[%clk\s+(\d+):(\d+):([\d.]+)\] matches, secs_float when float() converts
\* the third group, lit when the text holds a clock literal at all.
NoClk == [lit |-> FALSE, clk |-> FALSE, secs_float |-> FALSE,
          h |-> 0, m |-> 0, ds |-> 0]
Clk(h, m, ds) == [lit |-> TRUE, clk |-> TRUE, secs_float |-> TRUE,
                  h |-> h, m |-> m, ds |-> ds]
\* "[%clk 5:00]": a clock literal the pattern does not match.
ClkMalformed == [lit |-> TRUE, clk |-> FALSE, secs_float |-> FALSE,
                 h |-> 0, m |-> 0, ds |-> 0]
\* "[%clk 0:04:40.0.0]": the pattern matches, the seconds are no number.
ClkBadSeconds == [lit |-> TRUE, clk |-> TRUE, secs_float |-> FALSE,
                  h |-> 0, m |-> 4, ds |-> 400]
Ply(token, comment) == [san |-> token, comment |-> comment]

NoApiGame == [present |-> FALSE, pgn |-> [text |-> FALSE, plies |-> << >>],
              white |-> ""]
ApiGame(white, plies) ==
    [present |-> TRUE, pgn |-> [text |-> TRUE, plies |-> plies], white |-> white]
\* An api game whose pgn field holds no game text.
ApiGameNoPgn(white) ==
    [present |-> TRUE, pgn |-> [text |-> FALSE, plies |-> << >>], white |-> white]

\* The entries a file may hold.
Catalog ==
    << \* 1: the subject is white; the knights go out and back, no clock data
       [csv_game |-> [youtube_url |-> UrlShort],
        api_game |-> ApiGame("SenseiDanya",
            << Ply("Nf3", NoClk), Ply("Nf6", NoClk), Ply("Ng1", NoClk),
               Ply("Ng8", NoClk), Ply("Nf3", NoClk) >>)],
       \* 2: the subject is black; clocks on every ply
       [csv_game |-> [youtube_url |-> UrlWatch],
        api_game |-> ApiGame("opponent",
            << Ply("e4", Clk(0, 5, 0)), Ply("e5", Clk(0, 5, 0)),
               Ply("Nf3", Clk(0, 4, 585)) >>)],
       \* 3: the third move is illegal (no white knight reaches f6)
       [csv_game |-> [youtube_url |-> UrlWatch],
        api_game |-> ApiGame("hebeccararis",
            << Ply("e3", NoClk), Ply("d5", NoClk), Ply("Nf6", NoClk),
               Ply("e5", NoClk) >>)],
       \* 4: the pgn text holds no game
       [csv_game |-> [youtube_url |-> UrlShort],
        api_game |-> ApiGameNoPgn("SenseiDanya")],
       \* 5: match_status NOT_FOUND, api_game null
       [csv_game |-> [youtube_url |-> UrlShort],
        api_game |-> NoApiGame] >>

CatIds == DOMAIN Catalog

\* Danya's known Chess.com usernames.
daniel_usernames == {"senseidanya", "ohmylands", "frankfurtairport", "hebeccararis"}

\* A variant: the name compared as it is written.
LowerIdentity(name) == name

\* str.lower on the usernames of the catalog.
lower(name) ==
    CASE name = "SenseiDanya" -> "senseidanya"
      [] OTHER                -> name

----------------------------------------------------------------------------
(***************************************************************************)
(* Helper functions of the script.                                         *)
(***************************************************************************)

\* None where the script holds a clock reading.
NoClock == 0 - 1

\* float(match.group(3)) raises ValueError.
ClockValueError == 0 - 2

\* parse_clock: the reading in tenths of a second, or None when the pattern
\* does not match; the conversion of the seconds is not guarded.
parse_clock(comment) ==
    IF ~comment.clk THEN NoClock
    ELSE IF ~comment.secs_float THEN ClockValueError
    ELSE comment.h * 36000 + comment.m * 600 + comment.ds

\* get_youtube_start_time: the first t parameter of the query, or 0.
get_youtube_start_time(url) ==
    LET inQuery(i) ==
            \/ url.pathHasQuery
            \/ \E j \in 1..i : url.params[j].delim = "?t="
        ts == {i \in DOMAIN url.params : inQuery(i)}
    IN  IF ts = {} THEN 0
        ELSE url.params[CHOOSE i \in ts : \A j \in ts : i <= j].value

\* youtube_url.split("&t=")[0]: the text before the first "&t=".
SplitAmpT(url) ==
    LET amps == {i \in DOMAIN url.params : url.params[i].delim = "&t="}
        first == IF amps = {} THEN Len(url.params) + 1
                 ELSE CHOOSE i \in amps : \A j \in amps : i <= j
    IN  [url EXCEPT !.params = SubSeq(url.params, 1, first - 1)]

\* video_link: the split text followed by "&t={link_time}".
VideoLink(url, link_time) ==
    LET u == SplitAmpT(url)
    IN  [u EXCEPT !.params = Append(u.params, [delim |-> "&t=", value |-> link_time])]

\* chess.pgn.read_game builds the mainline from the moves it can parse on
\* the replayed board; at the first move it cannot, it records the error
\* in game.errors and skips the rest of the line.
RECURSIVE ParseMainline(_, _)
ParseMainline(b, plies) ==
    IF plies = << >> THEN << >>
    ELSE LET m == parse_san(b, Head(plies).san)
         IN  IF m = NoMove THEN << >>
             ELSE << [move |-> m, comment |-> Head(plies).comment] >>
                  \o ParseMainline(push(b, m), Tail(plies))

\* What read_game returns at the end of the text.
NoneGame == [none |-> TRUE, mainline |-> << >>]

\* chess.pgn.read_game: None when the text holds no game.
read_game(pgn) ==
    IF ~pgn.text THEN NoneGame
    ELSE [none |-> FALSE, mainline |-> ParseMainline(StartBoard, pgn.plies)]

----------------------------------------------------------------------------
(***************************************************************************)
(* One pass of the replay loop.                                            *)
(***************************************************************************)
EmptyPositions == [order |-> << >>, info |-> << >>]

NewGame(entry) ==
    [board |-> StartBoard, positions |-> EmptyPositions,
     last_clock_white |-> NoClock, last_clock_black |-> NoClock,
     total_time_elapsed |-> 0,
     link_time |-> 0,
     video_link |-> entry.csv_game.youtube_url,
     youtube_url |-> entry.csv_game.youtube_url,
     youtube_start |-> get_youtube_start_time(entry.csv_game.youtube_url),
     daniel_color |-> IF lower(entry.api_game.white) \in daniel_usernames
                      THEN "white" ELSE "black"]

\* A variant: the difference of the readings, whatever its sign.
ElapsedSigned(last, current) ==
    IF last # NoClock /\ current # NoClock THEN last - current ELSE 0

\* A variant: the distance between the readings.
ElapsedAbs(last, current) ==
    IF last # NoClock /\ current # NoClock
    THEN (IF last > current THEN last - current ELSE current - last)
    ELSE 0

\* elapsed time the ply adds: only with both readings of the side to move,
\* and only when positive
Elapsed(last, current) ==
    IF last # NoClock /\ current # NoClock /\ last - current > 0
    THEN last - current ELSE 0

\* A variant: the position after the move.
ObservedKeyAfter(b, move) == fen_normalized(push(b, move))

\* positions[fen_normalized]: the key is taken before board.push(move).
ObservedKey(b, move) == fen_normalized(b)

\* A variant: a ply without a reading leaves the last known reading.
NextLastClockKeep(last_clock, current_clock) ==
    IF current_clock = NoClock THEN last_clock ELSE current_clock

\* Update last known clocks: last_clock_white = current_clock, None too.
NextLastClock(last_clock, current_clock) == current_clock

\* A variant: the elapsed total rounded to the nearest second.
LinkTimeRounded(youtube_start, total_time_elapsed) ==
    youtube_start + ((total_time_elapsed + 5) \div 10)

\* link_time = youtube_start + int(total_time_elapsed)
LinkTime(youtube_start, total_time_elapsed) ==
    youtube_start + (total_time_elapsed \div 10)

ReplayStep(st, node) ==
    LET b             == st.board
        to_move       == IF b.turn = "w" THEN "white" ELSE "black"
        current_clock == parse_clock(node.comment)
        last          == IF to_move = "white" THEN st.last_clock_white
                         ELSE st.last_clock_black
        total         == st.total_time_elapsed + Elapsed(last, current_clock)
        key           == ObservedKey(b, node.move)
        old           == IF key \in DOMAIN st.positions.info
                         THEN st.positions.info[key]
                         ELSE [videos |-> EmptyBag, next_by_daniel |-> {},
                               next_faced |-> {}]
        link_time     == LinkTime(st.youtube_start, total)
        video_link    == VideoLink(st.youtube_url, link_time)
        san_move      == san(b, node.move)
        daniel_to_move == (to_move = st.daniel_color)
        new           == [videos |-> old.videos (+) SetToBag({video_link}),
                          next_by_daniel |-> IF daniel_to_move
                                             THEN old.next_by_daniel \cup {san_move}
                                             ELSE old.next_by_daniel,
                          next_faced |-> IF daniel_to_move THEN old.next_faced
                                         ELSE old.next_faced \cup {san_move}]
    IN  [st EXCEPT
           !.board = push(b, node.move),
           !.last_clock_white = IF to_move = "white"
                                THEN NextLastClock(@, current_clock) ELSE @,
           !.last_clock_black = IF to_move = "black"
                                THEN NextLastClock(@, current_clock) ELSE @,
           !.total_time_elapsed = total,
           !.link_time = link_time,
           !.video_link = video_link,
           !.positions =
               [order |-> IF key \in DOMAIN st.positions.info THEN @.order
                          ELSE Append(@.order, key),
                info  |-> IF key \in DOMAIN st.positions.info
                          THEN [@.info EXCEPT ![key] = new]
                          ELSE @.info @@ (key :> new)]]

----------------------------------------------------------------------------
(***************************************************************************)
(* The positions table and the merge of one key into it.                   *)
(*                                                                         *)
(* video_links is a JSON list.  The per-game list is filled by append and  *)
(* may hold a link more than once; list(set) gives the merged list in an   *)
(* order Python does not fix.  A list is therefore a bag: its elements     *)
(* with their multiplicities, without their order.  The two move columns   *)
(* are written from Python sets and are sets.                              *)
(***************************************************************************)
EmptyDb == << >>

\* the row INSERTed for a key the table lacks: the per-game lists as JSON
RowOf(info) ==
    [video_links |-> info.videos,
     next_moves_by_daniel |-> info.next_by_daniel,
     next_moves_faced |-> info.next_faced]

\* A variant: the row of a key the table holds is left as it is.
MergeKeyInsertOnly(d, k, info) ==
    IF k \in DOMAIN d THEN d ELSE d @@ (k :> RowOf(info))

\* A variant: the row of a key the table holds is replaced by the per-game lists.
MergeKeyReplace(d, k, info) ==
    IF k \in DOMAIN d THEN [d EXCEPT ![k] = RowOf(info)]
    ELSE d @@ (k :> RowOf(info))

\* SELECT the row of the key; UPDATE it with the unions, or INSERT the
\* per-game lists as they are.
MergeKey(d, k, info) ==
    IF k \in DOMAIN d
    THEN [d EXCEPT ![k] =
            [video_links |-> SetToBag(BagToSet(d[k].video_links)
                                      \cup BagToSet(info.videos)),
             next_moves_by_daniel |-> d[k].next_moves_by_daniel
                                      \cup info.next_by_daniel,
             next_moves_faced |-> d[k].next_moves_faced \cup info.next_faced]]
    ELSE d @@ (k :> RowOf(info))

\* A variant: every statement is committed as it runs.
CommittedAfterStatementAuto(c, d) == d

\* The connection is opened with the default isolation level: the INSERT
\* and UPDATE statements run inside a transaction, and none of them commits.
CommittedAfterStatement(c, d) == c

\* A variant: break, out of the file's game loop.
SkipToBreak(idx, n) == n + 1

\* continue: on to the next entry of the file
SkipTo(idx, n) == idx + 1

\* the merge loop over positions.items(), in the dict's insertion order
RECURSIVE MergeKeys(_, _, _)
MergeKeys(d, keys, info) ==
    IF keys = << >> THEN d
    ELSE MergeKeys(MergeKey(d, Head(keys), info[Head(keys)]), Tail(keys), info)

MergeInto(d, positions) == MergeKeys(d, positions.order, positions.info)

\* the replay loop over a whole mainline
RECURSIVE ReplayAll(_, _)
ReplayAll(s, nodes) ==
    IF nodes = << >> THEN s
    ELSE ReplayAll(ReplayStep(s, Head(nodes)), Tail(nodes))

\* the per-game map of an entry that parses
GamePositions(entry) ==
    ReplayAll(NewGame(entry), read_game(entry.api_game.pgn).mainline).positions

\* the table after the entries ids are replayed and merged, in order
RECURSIVE MergeGames(_, _)
MergeGames(d, ids) ==
    IF ids = << >> THEN d
    ELSE MergeGames(MergeInto(d, GamePositions(Catalog[Head(ids)])), Tail(ids))

----------------------------------------------------------------------------
VARIABLES
    files,                  \* the game data files: a sequence of sequences of entries
    fileIdx, games, idx,    \* the file loop and the game loop
    pc,
    st,                     \* the replay loop's locals (board, positions, clocks, ...)
    mainline,               \* the nodes of game.mainline() not yet visited
    pending,                \* the keys of positions.items() not yet merged
    db,                     \* the positions table as the open connection sees it
    committed,              \* the positions table on disk
    total_games_processed,
    restarts,               \* the runs started after an interruption
    dbBefore,               \* history: db when the current game's entry was read
    runStart,               \* history: the table on disk when the run started
    log, clog,              \* history: the entries merged into db and into committed
    merged,                 \* history: the <<file, index>> of the entries merged in this run
    last,                   \* history: what became of the entry handled last
    seen, lastMove,         \* history: the boards the game passed, the move played last
    entry,                  \* the entry of the game loop
    stamps,                 \* history: the video links of the game's plies, in play order
    csv_file,               \* step 1: the rows of the CSV file
    chess_api,              \* step 1: what the Chess.com API answers
    matcher,                \* step 1: the ChessGameMatcher and its position in main
    database,               \* steps 2-5: chess_positions.db, the positions table
    frontend_json,          \* step 5: chess_positions_frontend.json
    rebuild,                \* rebuild_all: its position, the steps it ran, their results
    lastRun                 \* history: the script run last, and what it did

\* the state of 2_build_database_from_games.py
buildVars == << files, fileIdx, games, idx, pc, st, mainline, pending, db,
                committed, total_games_processed, restarts, dbBefore, runStart,
                log, clog, merged, last, seen, lastMove, entry, stamps >>

\* the state of the other scripts
otherVars == << csv_file, chess_api, matcher, database, frontend_json, rebuild,
                lastRun >>

vars == << files, fileIdx, games, idx, pc, st, mainline, pending, db, committed,
           total_games_processed, restarts, dbBefore, runStart, log, clog,
           merged, last, seen, lastMove, entry, stamps, csv_file, chess_api,
           matcher, database, frontend_json, rebuild, lastRun >>

\* no database file: os.path.exists(db_path) is false
NoDatabase == [exists |-> FALSE, has_metadata |-> FALSE, order |-> << >>,
               rows |-> << >>]

\* no frontend JSON file yet
NoFile == [written |-> FALSE, positions |-> << >>]

\* rebuild_all is not running
NoRebuild == [pc |-> "idle", steps |-> << >>, results |-> << >>]

\* no script has run
NoRun == [script |-> "none", ok |-> TRUE, written |-> {}, calls |-> << >>, n |-> 0]

\* ChessGameMatcher.__init__
NewMatcher == [csv_games |-> << >>, target_game_ids |-> << >>,
               archives |-> << >>, i |-> 0, found_games |-> << >>,
               matches |-> << >>, pc |-> "init", requested |-> << >>]

\* no API is consulted
NoApi == [listing |-> [ok |-> FALSE, archives |-> << >>], archive |-> << >>]

\* the other scripts are not run
OthersIdle ==
    /\ csv_file = << >>
    /\ chess_api = NoApi
    /\ matcher = NewMatcher
    /\ database = NoDatabase
    /\ frontend_json = NoFile
    /\ rebuild = NoRebuild
    /\ lastRun = NoRun

board == st.board
positions == st.positions

\* the locals before any game is read
NoEntry == Catalog[4]
NoGame == NewGame(NoEntry)

RECURSIVE SeqsUpTo(_, _)
SeqsUpTo(S, n) ==
    IF n = 0 THEN {<< >>}
    ELSE LET shorter == SeqsUpTo(S, n - 1)
         IN  shorter \cup {Append(s, x) : s \in {t \in shorter : Len(t) = n - 1}, x \in S}

\* Cut a sequence of entries into files: the entries whose index is in ends
\* are the last of their file.
RECURSIVE CutFiles(_, _, _)
CutFiles(flat, ends, from) ==
    IF from > Len(flat) THEN << >>
    ELSE LET stops == {i \in from..Len(flat) : i \in ends \/ i = Len(flat)}
             stop  == CHOOSE i \in stops : \A j \in stops : i <= j
         IN  << SubSeq(flat, from, stop) >> \o CutFiles(flat, ends, stop + 1)

Batches ==
    {CutFiles(flat, ends, 1) :
        flat \in SeqsUpTo(CatIds, MaxGames), ends \in SUBSET (1..(MaxGames - 1))}

\* A fresh process: the table is created if missing, nothing is read yet.
Fresh ==
    /\ fileIdx = 1
    /\ games = << >>
    /\ idx = 0
    /\ pc = "file"
    /\ st = NoGame
    /\ mainline = << >>
    /\ pending = << >>
    /\ total_games_processed = 0
    /\ merged = {}
    /\ last = "none"
    /\ seen = {}
    /\ lastMove = NoMove
    /\ entry = NoEntry
    /\ stamps = << >>

Init ==
    /\ files \in Batches
    /\ Fresh
    /\ db = EmptyDb
    /\ committed = EmptyDb
    /\ restarts = 0
    /\ dbBefore = EmptyDb
    /\ runStart = EmptyDb
    /\ log = << >>
    /\ clog = << >>
    /\ OthersIdle

\* for file_name in INPUT_FILES: load the games of the next file
LoadFile ==
    /\ pc = "file"
    /\ fileIdx <= Len(files)
    /\ games' = files[fileIdx]
    /\ idx' = 1
    /\ pc' = "next"
    /\ UNCHANGED otherVars
    /\ UNCHANGED << entry, stamps, files, fileIdx, st, mainline, pending, db, committed,
                    total_games_processed, restarts, dbBefore, runStart, log,
                    clog, merged, last, seen, lastMove >>

\* entry["api_game"] is null: api_game["pgn"] raises TypeError, nothing
\* catches it, and the process ends with its transaction open.
LoadEntryCrash ==
    /\ pc = "next"
    /\ idx <= Len(games)
    /\ ~Catalog[games[idx]].api_game.present
    /\ pc' = "crashed"
    /\ db' = committed
    /\ log' = clog
    /\ last' = "crashed"
    /\ entry' = Catalog[games[idx]]
    /\ UNCHANGED otherVars
    /\ UNCHANGED << stamps, files, fileIdx, games, idx, st, mainline, pending, committed,
                    total_games_processed, restarts, dbBefore, runStart, clog,
                    merged, seen, lastMove >>

\* read_game returns None: print and continue
SkipGame ==
    /\ pc = "next"
    /\ idx <= Len(games)
    /\ Catalog[games[idx]].api_game.present
    /\ read_game(Catalog[games[idx]].api_game.pgn).none
    /\ idx' = SkipTo(idx, Len(games))
    /\ last' = "skipped"
    /\ dbBefore' = db
    /\ entry' = Catalog[games[idx]]
    /\ UNCHANGED otherVars
    /\ UNCHANGED << stamps, files, fileIdx, games, pc, st, mainline, pending, db,
                    committed, total_games_processed, restarts, runStart, log,
                    clog, merged, seen, lastMove >>

\* A variant: the clocks and the elapsed total of the game before are kept.
BeginGameKeepClocks ==
    /\ pc = "next"
    /\ idx <= Len(games)
    /\ Catalog[games[idx]].api_game.present
    /\ LET game == read_game(Catalog[games[idx]].api_game.pgn)
       IN  /\ ~game.none
           /\ st' = [NewGame(Catalog[games[idx]]) EXCEPT
                        !.last_clock_white = st.last_clock_white,
                        !.last_clock_black = st.last_clock_black,
                        !.total_time_elapsed = st.total_time_elapsed]
           /\ mainline' = game.mainline
    /\ pc' = "replay"
    /\ dbBefore' = db
    /\ seen' = {}
    /\ lastMove' = NoMove
    /\ last' = "replaying"
    /\ entry' = Catalog[games[idx]]
    /\ stamps' = << >>
    /\ UNCHANGED otherVars
    /\ UNCHANGED << files, fileIdx, games, idx, pending, db, committed,
                    total_games_processed, restarts, runStart, log, clog, merged >>

\* the game parsed: initialise the board, the position tracker and the clocks
BeginGame ==
    /\ pc = "next"
    /\ idx <= Len(games)
    /\ Catalog[games[idx]].api_game.present
    /\ LET game == read_game(Catalog[games[idx]].api_game.pgn)
       IN  /\ ~game.none
           /\ st' = NewGame(Catalog[games[idx]])
           /\ mainline' = game.mainline
    /\ pc' = "replay"
    /\ dbBefore' = db
    /\ seen' = {}
    /\ lastMove' = NoMove
    /\ last' = "replaying"
    /\ entry' = Catalog[games[idx]]
    /\ stamps' = << >>
    /\ UNCHANGED otherVars
    /\ UNCHANGED << files, fileIdx, games, idx, pending, db, committed,
                    total_games_processed, restarts, runStart, log, clog, merged >>

\* for move_node in game.mainline(): one ply
ReplayPly ==
    /\ pc = "replay"
    /\ mainline # << >>
    /\ parse_clock(Head(mainline).comment) # ClockValueError
    /\ st' = ReplayStep(st, Head(mainline))
    /\ mainline' = Tail(mainline)
    /\ seen' = seen \cup {st.board}
    /\ lastMove' = Head(mainline).move
    /\ stamps' = Append(stamps, st'.video_link)
    /\ UNCHANGED otherVars
    /\ UNCHANGED << entry, files, fileIdx, games, idx, pc, pending, db, committed,
                    total_games_processed, restarts, dbBefore, runStart, log,
                    clog, merged, last >>

\* the mainline is exhausted: for fen, info in positions.items()
EndReplay ==
    /\ pc = "replay"
    /\ mainline = << >>
    /\ pending' = st.positions.order
    /\ pc' = "merge"
    /\ UNCHANGED otherVars
    /\ UNCHANGED << entry, stamps, files, fileIdx, games, idx, st, mainline, db, committed,
                    total_games_processed, restarts, dbBefore, runStart, log,
                    clog, merged, last, seen, lastMove >>

\* one key of the per-game map: SELECT, then UPDATE or INSERT
MergeKeyStep ==
    /\ pc = "merge"
    /\ pending # << >>
    /\ db' = MergeKey(db, Head(pending), st.positions.info[Head(pending)])
    /\ committed' = CommittedAfterStatement(committed, db')
    /\ pending' = Tail(pending)
    /\ UNCHANGED otherVars
    /\ UNCHANGED << entry, stamps, files, fileIdx, games, idx, pc, st, mainline,
                    total_games_processed, restarts, dbBefore, runStart, log,
                    clog, merged, last, seen, lastMove >>

\* every key is merged: on to the next entry
EndMerge ==
    /\ pc = "merge"
    /\ pending = << >>
    /\ idx' = idx + 1
    /\ pc' = "next"
    /\ log' = Append(log, games[idx])
    /\ merged' = merged \cup {<< fileIdx, idx >>}
    /\ last' = "merged"
    /\ UNCHANGED otherVars
    /\ UNCHANGED << entry, stamps, files, fileIdx, games, st, mainline, pending, db, committed,
                    total_games_processed, restarts, dbBefore, runStart, clog,
                    seen, lastMove >>

\* the file's games are done: count them and commit
EndFile ==
    /\ pc = "next"
    /\ idx > Len(games)
    /\ total_games_processed' = total_games_processed + Len(games)
    /\ committed' = db
    /\ clog' = log
    /\ fileIdx' = fileIdx + 1
    /\ pc' = "file"
    /\ UNCHANGED otherVars
    /\ UNCHANGED << entry, stamps, files, games, idx, st, mainline, pending, db, restarts,
                    dbBefore, runStart, log, merged, last, seen, lastMove >>

\* every file is done: conn.close() and the summary
Finish ==
    /\ pc = "file"
    /\ fileIdx > Len(files)
    /\ pc' = "done"
    /\ UNCHANGED otherVars
    /\ UNCHANGED << entry, stamps, files, fileIdx, games, idx, st, mainline, pending, db,
                    committed, total_games_processed, restarts, dbBefore,
                    runStart, log, clog, merged, last, seen, lastMove >>

\* The process is interrupted: the open transaction is rolled back, and
\* what is on disk is what the last commit wrote.
Interrupt ==
    /\ pc \in {"file", "next", "replay", "merge"}
    /\ restarts < MaxRestarts
    /\ pc' = "killed"
    /\ db' = committed
    /\ log' = clog
    /\ dbBefore' = committed
    /\ fileIdx' = 1
    /\ games' = << >>
    /\ idx' = 0
    /\ st' = NoGame
    /\ mainline' = << >>
    /\ pending' = << >>
    /\ total_games_processed' = 0
    /\ merged' = {}
    /\ last' = "none"
    /\ seen' = {}
    /\ lastMove' = NoMove
    /\ entry' = NoEntry
    /\ stamps' = << >>
    /\ UNCHANGED otherVars
    /\ UNCHANGED << files, committed, restarts, runStart, clog >>

\* The script is run again from the start against the database on disk.
Restart ==
    /\ pc = "killed"
    /\ pc' = "file"
    /\ restarts' = restarts + 1
    /\ runStart' = committed
    /\ UNCHANGED otherVars
    /\ UNCHANGED << entry, stamps, files, fileIdx, games, idx, st, mainline, pending, db,
                    committed, total_games_processed, dbBefore, log, clog,
                    merged, last, seen, lastMove >>

Next ==
    \/ LoadFile
    \/ LoadEntryCrash
    \/ SkipGame
    \/ BeginGame
    \/ ReplayPly
    \/ EndReplay
    \/ MergeKeyStep
    \/ EndMerge
    \/ EndFile
    \/ Finish
    \/ Interrupt
    \/ Restart

Spec == Init /\ [][Next]_vars

----------------------------------------------------------------------------
(***************************************************************************)
(* SpecKey: the replay loop's board on every move sequence of the          *)
(* fragment up to MaxPlies plies, with the boards the game has passed.     *)
(***************************************************************************)
KeyInit ==
    /\ files = << >>
    /\ Fresh
    /\ db = EmptyDb
    /\ committed = EmptyDb
    /\ restarts = 0
    /\ dbBefore = EmptyDb
    /\ runStart = EmptyDb
    /\ log = << >>
    /\ clog = << >>
    /\ OthersIdle

\* board.push(move) for a move the input may hold at this point
KeyPush ==
    /\ Cardinality(seen) < MaxPlies
    /\ \E m \in LegalMoves(board) :
          /\ st' = [st EXCEPT !.board = push(board, m)]
          /\ seen' = seen \cup {board}
          /\ lastMove' = m
    /\ UNCHANGED otherVars
    /\ UNCHANGED << entry, stamps, files, fileIdx, games, idx, pc, mainline, pending, db,
                    committed, total_games_processed, restarts, dbBefore,
                    runStart, log, clog, merged, last >>

KeyNext == KeyPush

SpecKey == KeyInit /\ [][KeyNext]_vars

----------------------------------------------------------------------------
(***************************************************************************)
(* SpecClock: one entry of a file, replayed and merged into an empty       *)
(* table.  The entry is any game of up to MaxClockPlies plies of one line  *)
(* of the fragment, with any of the comments of ClockComments on each ply, *)
(* either video reference and either colour for the subject.               *)
(***************************************************************************)
\* 1. e4 e5, then the king's knights out and back.
ClockSan(i) ==
    CASE i = 1           -> "e4"
      [] i = 2           -> "e5"
      [] (i - 3) % 4 = 0 -> "Nf3"
      [] (i - 3) % 4 = 1 -> "Nf6"
      [] (i - 3) % 4 = 2 -> "Ng1"
      [] OTHER           -> "Ng8"

ClockComments ==
    {NoClk, ClkMalformed, ClkBadSeconds,
     Clk(0, 5, 0), Clk(0, 4, 400), Clk(0, 4, 585)}

\* the entry with video reference u, white player w and the comments c
ClockEntry(u, w, c) ==
    [csv_game |-> [youtube_url |-> u],
     api_game |-> ApiGame(w, [i \in DOMAIN c |-> Ply(ClockSan(i), c[i])])]

ClockInit ==
    /\ \E n \in 1..MaxClockPlies :
          \E u \in {UrlShort, UrlWatch}, w \in {"SenseiDanya", "opponent"},
             c \in [1..n -> ClockComments] :
                entry = ClockEntry(u, w, c)
    /\ files = << >>
    /\ fileIdx = 1
    /\ games = << >>
    /\ idx = 0
    /\ pc = "next"
    /\ st = NoGame
    /\ mainline = << >>
    /\ pending = << >>
    /\ total_games_processed = 0
    /\ merged = {}
    /\ last = "none"
    /\ seen = {}
    /\ lastMove = NoMove
    /\ stamps = << >>
    /\ db = EmptyDb
    /\ committed = EmptyDb
    /\ restarts = 0
    /\ dbBefore = EmptyDb
    /\ runStart = EmptyDb
    /\ log = << >>
    /\ clog = << >>
    /\ OthersIdle

\* the entry's game parsed: initialise the board, the position tracker
\* and the clocks
ClockBegin ==
    /\ pc = "next"
    /\ entry.api_game.present
    /\ LET game == read_game(entry.api_game.pgn)
       IN  /\ ~game.none
           /\ st' = NewGame(entry)
           /\ mainline' = game.mainline
    /\ pc' = "replay"
    /\ dbBefore' = db
    /\ seen' = {}
    /\ lastMove' = NoMove
    /\ last' = "replaying"
    /\ stamps' = << >>
    /\ UNCHANGED otherVars
    /\ UNCHANGED << entry, files, fileIdx, games, idx, pending, db, committed,
                    total_games_processed, restarts, runStart, log, clog, merged >>

\* one ply whose comment matches the clock pattern with seconds float()
\* rejects: ValueError leaves parse_clock, nothing catches it, and the
\* process ends with its transaction open.
ReplayPlyValueError ==
    /\ pc = "replay"
    /\ mainline # << >>
    /\ parse_clock(Head(mainline).comment) = ClockValueError
    /\ pc' = "crashed"
    /\ db' = committed
    /\ log' = clog
    /\ last' = "crashed"
    /\ UNCHANGED otherVars
    /\ UNCHANGED << entry, stamps, files, fileIdx, games, idx, st, mainline,
                    pending, committed, total_games_processed, restarts,
                    dbBefore, runStart, clog, merged, seen, lastMove >>

ClockNext ==
    \/ ClockBegin
    \/ ReplayPly
    \/ ReplayPlyValueError
    \/ EndReplay
    \/ MergeKeyStep

SpecClock == ClockInit /\ [][ClockNext]_vars

----------------------------------------------------------------------------
(***************************************************************************)
(* SpecGap: one entry of up to MaxGapPlies plies, each with a reading of   *)
(* 0:05:00 or 0:04:40 or with no clock literal, replayed and merged into   *)
(* an empty table.                                                         *)
(***************************************************************************)
GapComments == {NoClk, Clk(0, 5, 0), Clk(0, 4, 400)}

GapInit ==
    /\ \E n \in 1..MaxGapPlies :
          \E u \in {UrlShort, UrlWatch}, c \in [1..n -> GapComments] :
                entry = ClockEntry(u, "hebeccararis", c)
    /\ files = << >>
    /\ fileIdx = 1
    /\ games = << >>
    /\ idx = 0
    /\ pc = "next"
    /\ st = NoGame
    /\ mainline = << >>
    /\ pending = << >>
    /\ total_games_processed = 0
    /\ merged = {}
    /\ last = "none"
    /\ seen = {}
    /\ lastMove = NoMove
    /\ stamps = << >>
    /\ db = EmptyDb
    /\ committed = EmptyDb
    /\ restarts = 0
    /\ dbBefore = EmptyDb
    /\ runStart = EmptyDb
    /\ log = << >>
    /\ clog = << >>
    /\ OthersIdle

GapNext ==
    \/ ClockBegin
    \/ ReplayPly
    \/ EndReplay
    \/ MergeKeyStep

SpecGap == GapInit /\ [][GapNext]_vars

\* 2_build_database_from_games.py is not run
BuildIdle ==
    /\ files = << >>
    /\ Fresh
    /\ db = EmptyDb
    /\ committed = EmptyDb
    /\ restarts = 0
    /\ dbBefore = EmptyDb
    /\ runStart = EmptyDb
    /\ log = << >>
    /\ clog = << >>

----------------------------------------------------------------------------
(***************************************************************************)
(* SpecMatch: 1_match_games_csv_to_api.py, ChessGameMatcher.               *)
(*                                                                         *)
(* A Chess.com game URL is written by the id after /game/live/, any other  *)
(* URL by a word that is no id.  The API answers the request for the list  *)
(* of archives and the request for each archive, or fails to.              *)
(***************************************************************************)
GameIds == {"g1", "g2", "g3"}
ArchiveUrls == {"a1", "a2"}

\* extract_game_id_from_url: the digits after /game/live/, or None
extract_game_id_from_url(url) == IF url \in GameIds THEN url ELSE None

\* a game of an archive, with its url; game.get('url', '') of a game
\* without one is ''
ArchiveGame(url) == [null |-> FALSE, url |-> url]
\* 'api_game': None
NullGame == [null |-> TRUE, url |-> None]

\* the rows a CSV file may hold, by their Chess.com URL
CsvUrls == {"g1", "g2", "chess.com/home"}

\* the games an archive may hold
ArchiveContents ==
    { << >>,
      << ArchiveGame("g1") >>,
      << ArchiveGame(""), ArchiveGame("g1") >>,
      << ArchiveGame("g2"), ArchiveGame("g1") >>,
      << ArchiveGame("g3") >> }

\* the lists of archives the API may return
ArchiveListings == { << >>, << "a1" >>, << "a1", "a2" >>, << "a2", "a1" >> }

\* the hard-coded archive_urls, used when the request for the list fails
FallbackArchives == << "a1", "a2" >>

MatchInit ==
    /\ csv_file \in SeqsUpTo(CsvUrls, MaxCsvRows)
    /\ \E ok \in BOOLEAN, l \in ArchiveListings,
          r \in [ArchiveUrls -> [ok : BOOLEAN, games : ArchiveContents]] :
            /\ ok \/ l = << >>
            /\ chess_api = [listing |-> [ok |-> ok, archives |-> l], archive |-> r]
    /\ matcher = NewMatcher
    /\ database = NoDatabase
    /\ frontend_json = NoFile
    /\ rebuild = NoRebuild
    /\ lastRun = NoRun
    /\ BuildIdle

\* load_csv_games: the rows whose Chess.com URL holds a game id, with
\* their row numbers (the header is row 1)
RECURSIVE LoadRows(_, _)
LoadRows(rows, row_num) ==
    IF rows = << >> THEN << >>
    ELSE LET game_id == extract_game_id_from_url(Head(rows))
             rest    == LoadRows(Tail(rows), row_num + 1)
         IN  IF game_id # None
             THEN << [row_number |-> row_num, chess_url |-> Head(rows),
                      game_id |-> game_id] >> \o rest
             ELSE rest

\* match_csv_with_api, to the call of search_archives_for_games; with no
\* CSV games it returns []
MatchLoadCsv ==
    /\ matcher.pc = "init"
    /\ LET csv_games == LoadRows(csv_file, 2)
       IN  matcher' =
             [matcher EXCEPT
                !.csv_games = csv_games,
                !.target_game_ids = [k \in DOMAIN csv_games |-> csv_games[k].game_id],
                !.pc = IF csv_games = << >> THEN "done" ELSE "archives"]
    /\ UNCHANGED << csv_file, chess_api, database, frontend_json, rebuild, lastRun >>
    /\ UNCHANGED buildVars

\* get_player_archives: the API's list, or the fallback list when the
\* request fails
MatchGetArchives ==
    /\ matcher.pc = "archives"
    /\ matcher' =
          [matcher EXCEPT
             !.archives = IF chess_api.listing.ok THEN chess_api.listing.archives
                          ELSE FallbackArchives,
             !.i = 1,
             !.pc = "search"]
    /\ UNCHANGED << csv_file, chess_api, database, frontend_json, rebuild, lastRun >>
    /\ UNCHANGED buildVars

\* for game in games: a game whose id is a target is put in found_games
RECURSIVE ScanGames(_, _, _, _)
ScanGames(found_games, api_games, target_game_ids, archive_url) ==
    IF api_games = << >> THEN found_games
    ELSE LET game_id == extract_game_id_from_url(Head(api_games).url)
             hit     == \E k \in DOMAIN target_game_ids : target_game_ids[k] = game_id
             entry_  == [game_data |-> Head(api_games), archive_url |-> archive_url]
             found   == IF hit
                        THEN [g \in DOMAIN found_games \cup {game_id} |->
                                 IF g = game_id THEN entry_ ELSE found_games[g]]
                        ELSE found_games
         IN  ScanGames(found, Tail(api_games), target_game_ids, archive_url)

\* A variant: the first archive that fails ends the search.
NextArchiveStopOnError(ok, i, n) == IF ok THEN i + 1 ELSE n + 1

\* except Exception: the error is printed and the loop goes on
NextArchive(ok, i, n) == i + 1

\* for archive_url in archives: one archive
MatchSearchArchive ==
    /\ matcher.pc = "search"
    /\ matcher.i <= Len(matcher.archives)
    /\ LET archive_url == matcher.archives[matcher.i]
           response    == chess_api.archive[archive_url]
       IN  matcher' =
             [matcher EXCEPT
                !.found_games =
                    IF response.ok
                    THEN ScanGames(@, response.games, matcher.target_game_ids,
                                   archive_url)
                    ELSE @,
                !.requested = Append(@, archive_url),
                !.i = NextArchive(response.ok, matcher.i, Len(matcher.archives))]
    /\ UNCHANGED << csv_file, chess_api, database, frontend_json, rebuild, lastRun >>
    /\ UNCHANGED buildVars

\* the archives are searched: one match per CSV game
MatchBuildMatches ==
    /\ matcher.pc = "search"
    /\ matcher.i > Len(matcher.archives)
    /\ matcher' =
          [matcher EXCEPT
             !.matches =
                [k \in DOMAIN matcher.csv_games |->
                    LET csv_game == matcher.csv_games[k]
                        game_id  == csv_game.game_id
                    IN  IF game_id \in DOMAIN matcher.found_games
                        THEN [csv_game |-> csv_game,
                              api_game |-> matcher.found_games[game_id].game_data,
                              archive_url |-> matcher.found_games[game_id].archive_url,
                              match_status |-> "FOUND"]
                        ELSE [csv_game |-> csv_game,
                              api_game |-> NullGame,
                              archive_url |-> None,
                              match_status |-> "NOT_FOUND"]],
             !.pc = "done"]
    /\ UNCHANGED << csv_file, chess_api, database, frontend_json, rebuild, lastRun >>
    /\ UNCHANGED buildVars

MatchNext ==
    \/ MatchLoadCsv
    \/ MatchGetArchives
    \/ MatchSearchArchive
    \/ MatchBuildMatches

SpecMatch == MatchInit /\ [][MatchNext]_vars

----------------------------------------------------------------------------
(***************************************************************************)
(* Properties.                                                             *)
(***************************************************************************)
RECURSIVE Flatten(_)
Flatten(ff) == IF ff = << >> THEN << >> ELSE Head(ff) \o Flatten(Tail(ff))

\* The kinds of entry the batch may hold.
LacksGameData(e) == ~e.api_game.present
Unparseable(e) == e.api_game.present /\ ~e.api_game.pgn.text
HasIllegalMove(e) ==
    /\ e.api_game.present
    /\ e.api_game.pgn.text
    /\ Len(ParseMainline(StartBoard, e.api_game.pgn.plies)) < Len(e.api_game.pgn.plies)
Processable(e) == e.api_game.present /\ e.api_game.pgn.text /\ ~HasIllegalMove(e)
\* the entries the loop replays: every entry read_game returns a game for
Replayed(e) == e.api_game.present /\ e.api_game.pgn.text

SelectIds(ids, Test(_)) == SelectSeq(ids, LAMBDA i : Test(Catalog[i]))

Reorderings(ids) ==
    {[i \in DOMAIN ids |-> ids[p[i]]] : p \in Permutations(DOMAIN ids)}

JustMerged == pc = "next" /\ last = "merged"

\* C1: merging the same game record into the index twice yields an index
\* identical to merging it once: when the entry merged last is the entry
\* merged just before it, the second merge left the table as it was.
C1_MergeTwiceIsMergeOnce ==
    (/\ JustMerged
     /\ Len(log) >= 2
     /\ log[Len(log)] = log[Len(log) - 1])
    => db = dbBefore

\* C2: the order of the games does not matter: when a run is done, the
\* table is what merging the run's games in any other order into the
\* table the run started from gives.
C2_OrderIndependent ==
    pc = "done" =>
        \A ids \in Reorderings(SelectIds(Flatten(files), Replayed)) :
            db = MergeGames(runStart, ids)

C2_Witness ==
    /\ pc = "done"
    /\ \E i, j \in DOMAIN Flatten(files) :
          /\ i < j
          /\ Replayed(Catalog[Flatten(files)[i]])
          /\ Replayed(Catalog[Flatten(files)[j]])
          /\ Flatten(files)[i] # Flatten(files)[j]
          /\ \E k \in DOMAIN db :
                /\ k \in DOMAIN GamePositions(Catalog[Flatten(files)[i]]).info
                /\ k \in DOMAIN GamePositions(Catalog[Flatten(files)[j]]).info

\* C3: a game whose k-th move is illegal is aborted and leaves nothing in
\* the index: while and after its per-game map is merged, the table is
\* what it was when the game's entry was read.
C3_IllegalMoveLeavesNoTrace ==
    /\ (pc = "merge" /\ HasIllegalMove(Catalog[games[idx]])) => db = dbBefore
    /\ (JustMerged /\ HasIllegalMove(Catalog[games[idx - 1]])) => db = dbBefore

\* C4: merging the per-game map M sets the row of every key of M that the
\* table holds to the unions of the row's and M's sets, inserts the keys
\* the table lacks with M's lists, and leaves every other row unchanged.
C4_MergeEffectAndFrame ==
    JustMerged =>
        LET M == st.positions.info
        IN  /\ DOMAIN db = DOMAIN dbBefore \cup DOMAIN M
            /\ \A k \in DOMAIN M :
                  IF k \in DOMAIN dbBefore
                  THEN db[k] =
                         [video_links |->
                             SetToBag(BagToSet(dbBefore[k].video_links)
                                      \cup BagToSet(M[k].videos)),
                          next_moves_by_daniel |->
                             dbBefore[k].next_moves_by_daniel \cup M[k].next_by_daniel,
                          next_moves_faced |->
                             dbBefore[k].next_moves_faced \cup M[k].next_faced]
                  ELSE db[k] = [video_links |-> M[k].videos,
                                next_moves_by_daniel |-> M[k].next_by_daniel,
                                next_moves_faced |-> M[k].next_faced]
            /\ \A k \in DOMAIN dbBefore \ DOMAIN M : db[k] = dbBefore[k]

C4_Witness ==
    /\ JustMerged
    /\ \E k \in DOMAIN st.positions.info :
          /\ k \in DOMAIN dbBefore
          /\ db[k] # dbBefore[k]
    /\ \E k \in DOMAIN st.positions.info : k \notin DOMAIN dbBefore
    /\ \E k \in DOMAIN dbBefore : k \notin DOMAIN st.positions.info

\* C5: the table on disk is always the merge of a whole number of complete
\* per-game maps, also after an interruption at any point of a run: every
\* step either leaves it alone or adds to it the complete per-game maps of
\* the games merged since the last commit, in order.
C5_CommittedIsWholeGames ==
    [][/\ Len(clog') >= Len(clog)
       /\ SubSeq(clog', 1, Len(clog)) = clog
       /\ committed' =
             MergeGames(committed, SubSeq(clog', Len(clog) + 1, Len(clog')))]_vars

\* The same as a property of every state: the table on disk is the merge,
\* from the empty table, of the entries committed so far.
CommittedIsMergeOfLog ==
    committed = MergeGames(EmptyDb, clog)

\* a game is half merged in the open transaction of a run started after
\* an interruption, over a table on disk that holds earlier games
C5_Witness ==
    /\ restarts >= 1
    /\ pc = "merge"
    /\ pending # << >>
    /\ db # dbBefore
    /\ db # committed
    /\ committed # EmptyDb

\* C6: a batch that is interrupted and then run again from the start ends
\* with the index of one uninterrupted run of the batch.
C6_RestartGivesUninterruptedResult ==
    (pc = "done" /\ restarts >= 1) =>
        committed = MergeGames(EmptyDb, SelectIds(Flatten(files), Replayed))

\* C7: a record that cannot be processed never halts the batch: when the
\* run has ended, every processable record that comes after such a record
\* has been replayed and merged.
C7_BadRecordNeverHaltsBatch ==
    pc \in {"done", "crashed"} =>
        \A f1, f2 \in DOMAIN files :
            \A i1 \in DOMAIN files[f1], i2 \in DOMAIN files[f2] :
                (/\ f1 < f2 \/ (f1 = f2 /\ i1 < i2)
                 /\ ~Processable(Catalog[files[f1][i1]])
                 /\ Processable(Catalog[files[f2][i2]]))
                => << f2, i2 >> \in merged

\* C8: a record that cannot be parsed into a game is skipped: the step
\* the run takes on it leaves the table unchanged and moves on to the
\* next record of the file.
C8_UnparseableSkipped ==
    [][(/\ pc = "next"
        /\ idx <= Len(games)
        /\ Unparseable(Catalog[games[idx]])
        /\ pc' # "killed")
       => (/\ db' = db
           /\ committed' = committed
           /\ pc' = "next"
           /\ games' = games
           /\ fileIdx' = fileIdx
           /\ idx' = idx + 1)]_vars

\* an unparseable record was skipped and the record after it was merged
C8_Witness ==
    /\ JustMerged
    /\ idx >= 3
    /\ Unparseable(Catalog[games[idx - 2]])
    /\ db # dbBefore

\* What holds of C1 and C6 on the code: the rows agree as sets.
SetView(d) ==
    [k \in DOMAIN d |->
        [video_links |-> BagToSet(d[k].video_links),
         next_moves_by_daniel |-> d[k].next_moves_by_daniel,
         next_moves_faced |-> d[k].next_moves_faced]]

MergeTwiceIsMergeOnceAsSets ==
    (/\ JustMerged
     /\ Len(log) >= 2
     /\ log[Len(log)] = log[Len(log) - 1])
    => SetView(db) = SetView(dbBefore)

RestartGivesUninterruptedResultAsSets ==
    (pc = "done" /\ restarts >= 1) =>
        SetView(committed) =
            SetView(MergeGames(EmptyDb, SelectIds(Flatten(files), Replayed)))

\* What holds of C7 on the code: a record that has game data never halts
\* the batch.
ParsedBadRecordNeverHaltsBatch ==
    pc \in {"done", "crashed"} =>
        \A f1, f2 \in DOMAIN files :
            \A i1 \in DOMAIN files[f1], i2 \in DOMAIN files[f2] :
                (/\ f1 < f2 \/ (f1 = f2 /\ i1 < i2)
                 /\ ~Processable(Catalog[files[f1][i1]])
                 /\ \A f \in DOMAIN files : \A i \in DOMAIN files[f] :
                       ~LacksGameData(Catalog[files[f][i]])
                 /\ Processable(Catalog[files[f2][i2]]))
                => << f2, i2 >> \in merged

----------------------------------------------------------------------------
(***************************************************************************)
(* Properties of the position key, under SpecKey.                          *)
(***************************************************************************)
Boards == seen \cup {board}

SameFourFields(b1, b2) ==
    /\ b1.sq = b2.sq
    /\ b1.turn = b2.turn
    /\ b1.castling = b2.castling
    /\ b1.ep_square = b2.ep_square

\* C9: the key does not depend on the move counters: boards with the same
\* placement, side to move, castling rights and en-passant square get the
\* same key, which is the tuple of those four fields; the same holds of
\* normalize_fen applied to the six-field FEN.
C9_KeyIgnoresCounters ==
    /\ \A b1, b2 \in Boards :
          SameFourFields(b1, b2) =>
             /\ fen_normalized(b1) = fen_normalized(b2)
             /\ normalize_fen(fen(b1)) = normalize_fen(fen(b2))
    /\ \A b \in Boards :
          /\ Len(fen_normalized(b)) = 4
          /\ Len(normalize_fen(fen(b))) = 4

\* the game came back to a position with other counters
C9_Witness ==
    \E b \in seen :
        /\ SameFourFields(b, board)
        /\ b.fullmove_number # board.fullmove_number
        /\ b.halfmove_clock # board.halfmove_clock

SameButEnPassant(b1, b2) ==
    /\ b1.sq = b2.sq
    /\ b1.turn = b2.turn
    /\ b1.castling = b2.castling

\* C10, as claimed: the key holds an en-passant square only when an
\* en-passant capture is legal, so boards with the same placement, turn,
\* castling rights and en-passant availability get the same key.
C10_EnPassantOnlyWhenLegal ==
    /\ fen_normalized(board)[4] # "-" => has_legal_en_passant(board)
    /\ \A b1, b2 \in Boards :
          (/\ SameButEnPassant(b1, b2)
           /\ has_legal_en_passant(b1) = has_legal_en_passant(b2)
           /\ has_legal_en_passant(b1) => b1.ep_square = b2.ep_square)
          => fen_normalized(b1) = fen_normalized(b2)

\* C10, amended: the key holds the square passed by the last move exactly
\* when that move was a double pawn push, whether or not a capture is
\* legal; boards with the same placement, turn and castling rights get the
\* same key exactly when they agree on that square.
C10_EnPassantIsDoublePushSquare ==
    /\ fen_normalized(board)[4] =
          (IF lastMove.kind = "double" THEN lastMove.mid ELSE "-")
    /\ \A b1, b2 \in Boards :
          SameButEnPassant(b1, b2) =>
             (fen_normalized(b1) = fen_normalized(b2)
                <=> b1.ep_square = b2.ep_square)

\* the same placement reached after a double push and after quiet moves,
\* with no capture legal in either: the keys differ
C10_Witness ==
    /\ ~has_legal_en_passant(board)
    /\ \E b \in seen :
          /\ SameButEnPassant(b, board)
          /\ ~has_legal_en_passant(b)
          /\ fen_normalized(b)[4] # "-"
          /\ fen_normalized(b) # fen_normalized(board)

----------------------------------------------------------------------------
(***************************************************************************)
(* Properties of the clocks and the timestamps.                            *)
(***************************************************************************)
\* the plies of the entry's game text
Plies == entry.api_game.pgn.plies

\* the clock reading a comment carries, in tenths of a second; -1 when it
\* carries none
Reading(c) ==
    IF c.clk /\ c.secs_float THEN c.h * 36000 + c.m * 600 + c.ds ELSE 0 - 1

\* the latest reading of the side that plays ply i, before ply i
RECURSIVE PrevReading(_, _)
PrevReading(plies, i) ==
    IF i <= 2 THEN 0 - 1
    ELSE IF Reading(plies[i - 2].comment) >= 0 THEN Reading(plies[i - 2].comment)
    ELSE PrevReading(plies, i - 2)

\* what ply i adds: the fall of the side's clock since its previous ply,
\* when both plies carry a reading and the clock fell
Contribution(plies, i) ==
    IF /\ i >= 3
       /\ Reading(plies[i].comment) >= 0
       /\ Reading(plies[i - 2].comment) >= 0
       /\ Reading(plies[i - 2].comment) > Reading(plies[i].comment)
    THEN Reading(plies[i - 2].comment) - Reading(plies[i].comment)
    ELSE 0

\* the elapsed time of both sides up to and including ply i, in tenths
RECURSIVE CumulativeElapsed(_, _)
CumulativeElapsed(plies, i) ==
    IF i = 0 THEN 0
    ELSE CumulativeElapsed(plies, i - 1) + Contribution(plies, i)

\* the base offset of the entry's video reference, in seconds
BaseOffset == IF entry.csv_game.youtube_url = UrlShort THEN 50 ELSE 30

\* the time parameter the rewrite put on a link
TimeParam(link) == link.params[Len(link.params)].value

\* the link of ply i is among the videos of some position of the game
Recorded(link) ==
    \E k \in DOMAIN st.positions.info : BagIn(link, st.positions.info[k].videos)

\* C11: the rewrite replaces the time parameter of the input reference: the
\* link stored for every ply holds exactly one time parameter, and its
\* value is the newly computed one.
C11_RewriteReplaces ==
    \A i \in DOMAIN stamps :
        /\ Len(stamps[i].params) = 1
        /\ stamps[i].params[1].value =
              BaseOffset + (CumulativeElapsed(Plies, i) \div 10)

\* What holds of C11 on the code: a time parameter after "&t=" is replaced.
AmpersandTimeIsReplaced ==
    entry.csv_game.youtube_url = UrlWatch =>
        \A i \in DOMAIN stamps : Len(stamps[i].params) = 1

\* C12: the time parameter written on the link of every ply is the base
\* offset plus the whole seconds of the elapsed time of both sides up to
\* and including the ply's own reading, and that link is recorded.
C12_LinkTimeIsBasePlusFloor ==
    pc \in {"replay", "merge"} =>
        \A i \in DOMAIN stamps :
            /\ TimeParam(stamps[i]) =
                  BaseOffset + (CumulativeElapsed(Plies, i) \div 10)
            /\ Recorded(stamps[i])

\* base offset 50, the subject's clock at 0:05:00 and then at 0:04:40
C12_Witness ==
    /\ entry.csv_game.youtube_url = UrlShort
    /\ lower(entry.api_game.white) \in daniel_usernames
    /\ Len(stamps) >= 3
    /\ Plies[1].comment = Clk(0, 5, 0)
    /\ Plies[3].comment = Clk(0, 4, 400)
    /\ TimeParam(stamps[3]) = 70

\* C13: a reading greater than the side's previous reading adds nothing,
\* and the elapsed total never decreases from one ply to the next.
C13_ClockIncreaseAddsNothing ==
    [][(pc = "replay" /\ pc' = "replay" /\ Len(stamps') = Len(stamps) + 1)
       => LET i == Len(stamps')
          IN  /\ st'.total_time_elapsed >= st.total_time_elapsed
              /\ (/\ PrevReading(Plies, i) >= 0
                  /\ Reading(Plies[i].comment) > PrevReading(Plies, i))
                 => st'.total_time_elapsed = st.total_time_elapsed]_vars

\* time has elapsed, and the ply played last carries a reading above the
\* side's previous one
C13_Witness ==
    /\ pc = "replay"
    /\ Len(stamps) >= 3
    /\ PrevReading(Plies, Len(stamps)) >= 0
    /\ Reading(Plies[Len(stamps)].comment) > PrevReading(Plies, Len(stamps))
    /\ st.total_time_elapsed > 0

\* the ply about to be replayed is recorded by the step: its position, its
\* move and its link
PlyRecorded ==
    LET key == fen_normalized(st.board)
        mv  == Head(mainline).move.san
    IN  /\ Len(stamps') = Len(stamps) + 1
        /\ key \in DOMAIN st'.positions.info
        /\ BagIn(stamps'[Len(stamps')], st'.positions.info[key].videos)
        /\ mv \in (st'.positions.info[key].next_by_daniel
                   \cup st'.positions.info[key].next_faced)

\* C14: a ply whose comment holds no clock literal, or a malformed one,
\* adds no elapsed time, does not end the game, and is recorded.
C14_MissingClockIsNoError ==
    [][(/\ pc = "replay"
        /\ mainline # << >>
        /\ ~(Head(mainline).comment.clk /\ Head(mainline).comment.secs_float))
       => (/\ pc' = "replay"
           /\ st'.total_time_elapsed = st.total_time_elapsed
           /\ PlyRecorded)]_vars

\* What holds of C14 on the code: a comment the clock pattern does not
\* match adds nothing, and its ply is recorded.
UnmatchedClockIsNoError ==
    [][(/\ pc = "replay"
        /\ mainline # << >>
        /\ ~Head(mainline).comment.clk)
       => (/\ pc' = "replay"
           /\ st'.total_time_elapsed = st.total_time_elapsed
           /\ PlyRecorded)]_vars

\* C15, as claimed: the timestamps of a game's plies strictly increase in
\* play order.
C15_StrictlyIncreasing ==
    \A i, j \in DOMAIN stamps :
        i < j => TimeParam(stamps[i]) < TimeParam(stamps[j])

\* C15, amended: the timestamps of a game's plies never decrease in play
\* order, and the later one is greater exactly when the whole seconds of
\* elapsed time grew between the two plies.
C15_NonDecreasing ==
    \A i, j \in DOMAIN stamps :
        i < j =>
            /\ TimeParam(stamps[i]) <= TimeParam(stamps[j])
            /\ (TimeParam(stamps[i]) < TimeParam(stamps[j])
                  <=> (CumulativeElapsed(Plies, i) \div 10
                         < CumulativeElapsed(Plies, j) \div 10))

\* two plies with the same timestamp, then one with a greater timestamp,
\* then a reading above the side's previous one
C15_Witness ==
    /\ Len(stamps) >= 4
    /\ TimeParam(stamps[1]) = TimeParam(stamps[2])
    /\ TimeParam(stamps[2]) < TimeParam(stamps[3])
    /\ Reading(Plies[2].comment) >= 0
    /\ Reading(Plies[4].comment) > Reading(Plies[2].comment)

\* C16: the clocks are unknown and the elapsed total is zero when a game
\* begins, whatever was processed before; the timestamps of the game are
\* those its own comments and base offset give; the first ply of each side
\* adds nothing.
C16_ClockStatePerGame ==
    /\ (pc = "replay" /\ stamps = << >>) =>
          /\ st.last_clock_white = NoClock
          /\ st.last_clock_black = NoClock
          /\ st.total_time_elapsed = 0
    /\ (pc \in {"replay", "merge"} \/ JustMerged) =>
          \A i \in DOMAIN stamps :
              /\ TimeParam(stamps[i]) =
                    BaseOffset + (CumulativeElapsed(Plies, i) \div 10)
              /\ i <= 2 => TimeParam(stamps[i]) = BaseOffset

\* a game with elapsed time is replayed after a game with elapsed time was
\* merged
C16_Witness ==
    /\ pc = "replay"
    /\ Len(log) >= 1
    /\ \E n \in DOMAIN log :
          CumulativeElapsed(Catalog[log[n]].api_game.pgn.plies,
                            Len(Catalog[log[n]].api_game.pgn.plies)) > 0
    /\ Len(stamps) >= 3
    /\ TimeParam(stamps[3]) > BaseOffset

\* the entry holds no clock data, and the subject has the white pieces
NoClockData == \A i \in DOMAIN Plies : ~Plies[i].comment.lit
SubjectIsWhite == lower(entry.api_game.white) \in daniel_usernames
Merged == pc = "merge" /\ pending = << >>
StartKey == fen_normalized(StartBoard)
AfterE4Key == fen_normalized(push(StartBoard, parse_san(StartBoard, "e4")))

\* C17: when a game in which the subject is white and plays e4, with no
\* clock data, is merged, the starting position holds e4 among the
\* subject's moves and not among the others', and the position after e4 is
\* there with the base offset as its timestamp.
C17_E4Scenario ==
    (Merged /\ SubjectIsWhite /\ NoClockData) =>
        /\ StartKey \in DOMAIN db
        /\ "e4" \in db[StartKey].next_moves_by_daniel
        /\ "e4" \notin db[StartKey].next_moves_faced
        /\ AfterE4Key \in DOMAIN db
        /\ \E v \in BagToSet(db[AfterE4Key].video_links) :
              TimeParam(v) = BaseOffset

\* What holds of C17 on the code: the same, of the games with a reply to e4.
E4ScenarioWithReply ==
    (Merged /\ SubjectIsWhite /\ NoClockData /\ Len(Plies) >= 2) =>
        /\ StartKey \in DOMAIN db
        /\ "e4" \in db[StartKey].next_moves_by_daniel
        /\ "e4" \notin db[StartKey].next_moves_faced
        /\ AfterE4Key \in DOMAIN db
        /\ \A v \in BagToSet(db[AfterE4Key].video_links) :
              TimeParam(v) = BaseOffset

----------------------------------------------------------------------------
(***************************************************************************)
(* Properties of the aggregates and of the summary, under Spec.            *)
(***************************************************************************)
\* C18: no position's stored videos holds a value twice, in the table as
\* the connection sees it or on disk; the two move columns are written
\* from sets.
C18_AggregatesAreSets ==
    \A d \in {db, committed} :
        \A k \in DOMAIN d :
            \A v \in BagToSet(d[k].video_links) :
                CopiesIn(v, d[k].video_links) = 1

\* every key of d is a key of e, with each of its three sets included
Grows(d, e) ==
    \A k \in DOMAIN d :
        /\ k \in DOMAIN e
        /\ BagToSet(d[k].video_links) \subseteq BagToSet(e[k].video_links)
        /\ d[k].next_moves_by_daniel \subseteq e[k].next_moves_by_daniel
        /\ d[k].next_moves_faced \subseteq e[k].next_moves_faced

\* C19: the index only grows under game processing: every step of a run
\* leaves the table on disk with every key it had and each of its sets
\* included in what it becomes, and so does every statement of a merge
\* with the table the connection sees.
C19_IndexOnlyGrows ==
    [][/\ Grows(committed, committed')
       /\ pc' \notin {"killed", "crashed"} => Grows(db, db')]_vars

\* a merge added a move to a row the table held
C19_Witness ==
    /\ JustMerged
    /\ \E k \in DOMAIN dbBefore :
          /\ dbBefore[k].next_moves_by_daniel # db[k].next_moves_by_daniel
          /\ dbBefore[k].next_moves_by_daniel \subseteq db[k].next_moves_by_daniel
          /\ BagToSet(dbBefore[k].video_links) # BagToSet(db[k].video_links)

\* C20: the count the summary reports is the number of games replayed and
\* merged; a skipped game is not counted.
C20_ProcessedCountsMerged ==
    pc = "done" => total_games_processed = Cardinality(merged)

\* What holds of C20 on the code: the count is the number of entries read.
ProcessedCountsEntries ==
    pc = "done" => total_games_processed = Len(Flatten(files))

----------------------------------------------------------------------------
(***************************************************************************)
(* Properties of the observations of a game.                               *)
(***************************************************************************)
\* the number of video references a per-game map holds, over the keys ks
RECURSIVE CountVideos(_, _)
CountVideos(info, ks) ==
    IF ks = {} THEN 0
    ELSE LET k == CHOOSE x \in ks : TRUE
         IN  BagCardinality(info[k].videos) + CountVideos(info, ks \ {k})

\* the keys of the positions a line of moves goes through, the first
\* position and the last included
RECURSIVE KeysAlong(_, _)
KeysAlong(b, line) ==
    IF line = << >> THEN << fen_normalized(b) >>
    ELSE << fen_normalized(b) >> \o KeysAlong(push(b, Head(line).move), Tail(line))

\* C28: at the step that ends its replay, a game of n plies has recorded n
\* observations, each under the position before its move: ply i's link and
\* move are under the key of the board before ply i, the map holds n links
\* and no other key, and the position after the last ply is a key only if
\* it is the position before some ply.
C28_ObservationsKeyedBeforeMove ==
    [][(pc = "replay" /\ pc' = "merge") =>
        LET n    == Len(stamps)
            info == st.positions.info
            keys == KeysAlong(StartBoard, read_game(entry.api_game.pgn).mainline)
        IN  /\ Len(keys) = n + 1
            /\ DOMAIN info = {keys[i] : i \in 1..n}
            /\ CountVideos(info, DOMAIN info) = n
            /\ \A i \in 1..n :
                  /\ BagIn(stamps[i], info[keys[i]].videos)
                  /\ Plies[i].san \in (info[keys[i]].next_by_daniel
                                       \cup info[keys[i]].next_faced)
            /\ keys[n + 1] \in DOMAIN info
                  <=> \E i \in 1..n : keys[i] = keys[n + 1]]_vars

\* a game whose last position is recorded, as the position before an
\* earlier ply, and one position of the game holds two observations
C28_Witness ==
    /\ pc = "merge"
    /\ pending = st.positions.order
    /\ Len(stamps) >= 5
    /\ fen_normalized(st.board) \in DOMAIN st.positions.info
    /\ \E k \in DOMAIN st.positions.info :
          BagCardinality(st.positions.info[k].videos) = 2

\* C29: after a side's ply without a clock literal, that side's next ply
\* adds no elapsed time, whatever reading it carries.
C29_GapErasesReading ==
    [][(pc = "replay" /\ pc' = "replay" /\ Len(stamps') = Len(stamps) + 1)
       => LET i == Len(stamps')
          IN  (i >= 3 /\ ~Plies[i - 2].comment.lit)
                 => st'.total_time_elapsed = st.total_time_elapsed]_vars

\* 0:05:00, then no literal, then 0:04:40 on three plies of one side: the
\* twenty seconds are not added
C29_Witness ==
    /\ pc = "replay"
    /\ Len(stamps) = 5
    /\ Plies[1].comment = Clk(0, 5, 0)
    /\ ~Plies[3].comment.lit
    /\ Plies[5].comment = Clk(0, 4, 400)
    /\ st.total_time_elapsed = 0

\* the white player's name is one of the subject's, in any case
WhiteIsSubject ==
    entry.api_game.white \in
        {"SenseiDanya", "senseidanya", "ohmylands", "frankfurtairport",
         "hebeccararis"}

\* C30: the subject is white exactly when white's name, lower-cased, is a
\* known name, and black otherwise; every ply's move goes to the subject's
\* moves when the side to move is the subject's colour and to the others'
\* moves otherwise, to one of the two and not to the other.
C30_AttributionTotalExclusive ==
    [][(pc = "replay" /\ pc' = "replay" /\ Len(stamps') = Len(stamps) + 1)
       => LET key   == fen_normalized(st.board)
              mv    == Head(mainline).move.san
              isNew == key \notin DOMAIN st.positions.info
              by    == IF isNew THEN {} ELSE st.positions.info[key].next_by_daniel
              faced == IF isNew THEN {} ELSE st.positions.info[key].next_faced
              subjectToMove == (st.board.turn = "w") <=> WhiteIsSubject
          IN  /\ st.daniel_color = (IF WhiteIsSubject THEN "white" ELSE "black")
              /\ IF subjectToMove
                 THEN /\ st'.positions.info[key].next_by_daniel = by \cup {mv}
                      /\ st'.positions.info[key].next_faced = faced
                 ELSE /\ st'.positions.info[key].next_by_daniel = by
                      /\ st'.positions.info[key].next_faced = faced \cup {mv}]_vars

\* the white player is the subject under a mixed-case name, and both
\* sides have moved
C30_Witness ==
    /\ pc = "replay"
    /\ entry.api_game.white = "SenseiDanya"
    /\ Len(stamps) >= 2
    /\ \E k \in DOMAIN st.positions.info :
          st.positions.info[k].next_by_daniel # {}
    /\ \E k \in DOMAIN st.positions.info :
          st.positions.info[k].next_faced # {}

----------------------------------------------------------------------------
(***************************************************************************)
(* SpecPipeline: the scripts that work on chess_positions.db after the     *)
(* build (3_fetch_youtube_titles.py, 4_clean_database.py,                  *)
(* 5_export_to_frontend_json.py), run by hand or by rebuild_all.py.        *)
(*                                                                         *)
(* A script run is one step.  `database` is the positions table: `exists`  *)
(* says that the table is there (sqlite3.connect creates a missing file,   *)
(* with no table in it), `has_metadata` that it has the video_metadata     *)
(* column, `order` is the order of the rows in a SELECT and `rows` maps a  *)
(* fen to its row.  A TEXT column that holds JSON is written by the        *)
(* decoded list.  A row of a table without the video_metadata column       *)
(* carries the column's default, which is what ADD COLUMN gives it.        *)
(***************************************************************************)
\* a video link: the host, the segments of the path and the v parameter
VideoUrl(host, path, v) == [host |-> host, path |-> path, v |-> v]

\* https://youtu.be/v1?t=10
YT1 == VideoUrl("youtu.be", << "v1" >>, None)
\* https://www.youtube.com/watch?v=v1&t=20
YT1w == VideoUrl("www.youtube.com", << "watch" >>, "v1")
\* https://www.chess.com/game/live/123
CH == VideoUrl("www.chess.com", << "game", "live", "123" >>, None)
\* https://www.twitch.tv/videos/9
OT == VideoUrl("www.twitch.tv", << "videos", "9" >>, None)

\* \d+
Digits == {"123"}

\* extract_video_id: the path of a youtu.be link, the v parameter of a
\* youtube.com/watch link, None for any other link
extract_video_id(url) ==
    IF url.host = "youtu.be" THEN url.path[1]
    ELSE IF url.host \in {"www.youtube.com", "youtube.com"} /\ url.path = << "watch" >>
         THEN url.v
         ELSE None

\* CHESS_URL_PATTERN.search(link)
CHESS_URL_PATTERN(link) ==
    /\ link.host \in {"chess.com", "www.chess.com"}
    /\ Len(link.path) >= 3
    /\ link.path[1] = "game"
    /\ link.path[2] = "live"
    /\ link.path[3] \in Digits

\* the text of a JSON list in a TEXT column, and NULL
JsonText(list) == [null |-> FALSE, json |-> list]
SqlNull == [null |-> TRUE, json |-> << >>]

\* video_metadata TEXT DEFAULT '[]'
DefaultMetadata == JsonText(<< >>)

\* set(a list)
SetOf(list) == {list[i] : i \in DOMAIN list}

\* list(a set): its elements, in an order the language does not fix
RECURSIVE ListsOf(_)
ListsOf(S) ==
    IF S = {} THEN {<< >>}
    ELSE UNION {{<< x >> \o l : l \in ListsOf(S \ {x})} : x \in S}

\* a game of the input: its video link and the number of plies replayed
PipeGame(video_link, depth) == [video_link |-> video_link, depth |-> depth]
PipeGames == {PipeGame(YT1, 2), PipeGame(YT1w, 1), PipeGame(CH, 1), PipeGame(OT, 2)}

\* the keys of the game's positions dict, in insertion order
GameFens(g) == IF g.depth = 2 THEN << "p0", "p1" >> ELSE << "p0" >>

\* the game's positions dict: the subject plays e4 in p0 and faces e5 in p1
PipePositions(g) ==
    [fen_ \in SetOf(GameFens(g)) |->
        [videos |-> {g.video_link},
         next_by_daniel |-> IF fen_ = "p0" THEN {"e4"} ELSE {},
         next_faced |-> IF fen_ = "p1" THEN {"e5"} ELSE {}]]

\* CREATE TABLE IF NOT EXISTS positions
CreateTable(d) == IF d.exists THEN d ELSE [NoDatabase EXCEPT !.exists = TRUE]

\* the rows the merge of one position may write: UPDATE of the three
\* columns of an existing row, or INSERT of a row with the four columns
MergedRows(d, fen_, info) ==
    IF fen_ \in DOMAIN d.rows
    THEN {[d.rows[fen_] EXCEPT !.video_links = v,
                              !.next_moves_by_daniel = a,
                              !.next_moves_faced = b] :
             v \in ListsOf(SetOf(d.rows[fen_].video_links) \cup info.videos),
             a \in ListsOf(SetOf(d.rows[fen_].next_moves_by_daniel) \cup info.next_by_daniel),
             b \in ListsOf(SetOf(d.rows[fen_].next_moves_faced) \cup info.next_faced)}
    ELSE {[video_links |-> v, next_moves_by_daniel |-> a, next_moves_faced |-> b,
           video_metadata |-> DefaultMetadata] :
             v \in ListsOf(info.videos),
             a \in ListsOf(info.next_by_daniel),
             b \in ListsOf(info.next_faced)}

\* the table with the row of fen written
PutRow(d, fen_, row) ==
    [d EXCEPT !.rows = [f \in DOMAIN d.rows \cup {fen_} |->
                           IF f = fen_ THEN row ELSE d.rows[f]],
              !.order = IF fen_ \in DOMAIN d.rows THEN @ ELSE Append(@, fen_)]

\* for fen, info in positions.items(): the tables the loop may leave
RECURSIVE MergePositions(_, _, _)
MergePositions(d, game_positions, fens) ==
    IF fens = << >> THEN {d}
    ELSE UNION {MergePositions(PutRow(d, Head(fens), row), game_positions, Tail(fens)) :
                   row \in MergedRows(d, Head(fens), game_positions[Head(fens)])}

\* 2_build_database_from_games.py on one game
build_database(d, g) == MergePositions(CreateTable(d), PipePositions(g), GameFens(g))

\* what the oEmbed request may come to
Responses == {"200 title", "200 no title", "404", "500", "timeout"}

\* the title the oEmbed API gives for the video
OEmbedTitle == "Daniel Naroditsky Speedrun to 3000"

FALLBACK_TITLE == "Danya's Chess Speedrun"

\* get_youtube_title: the title of a 200 response, None otherwise
get_youtube_title(video_id, response) ==
    IF video_id = None THEN None
    ELSE IF response = "200 title" THEN OEmbedTitle
    ELSE None

\* A variant: only a title that was found is cached.
CachePutFound(video_cache, video_id, title) ==
    IF title = None THEN video_cache
    ELSE [i \in DOMAIN video_cache \cup {video_id} |->
             IF i = video_id THEN title ELSE video_cache[i]]

\* video_cache[video_id] = title
CachePut(video_cache, video_id, title) ==
    [i \in DOMAIN video_cache \cup {video_id} |->
        IF i = video_id THEN title ELSE video_cache[i]]

\* for url in video_urls: acc holds video_cache, the ids requested so far
\* and the video_metadata list; the resolver answers the first request
\* for an id and any later one
RECURSIVE FetchUrls(_, _, _)
FetchUrls(video_urls, acc, resolver) ==
    IF video_urls = << >> THEN acc
    ELSE LET url      == Head(video_urls)
             video_id == extract_video_id(url)
             hit      == video_id \in DOMAIN acc.video_cache
             response == IF \E k \in DOMAIN acc.calls : acc.calls[k] = video_id
                         THEN resolver.later ELSE resolver.first
             title    == IF hit THEN acc.video_cache[video_id]
                         ELSE get_youtube_title(video_id, response)
         IN  IF video_id = None
             THEN FetchUrls(Tail(video_urls),
                            [acc EXCEPT !.video_metadata =
                                Append(@, [url |-> url, video_id |-> None,
                                           title |-> FALLBACK_TITLE])],
                            resolver)
             ELSE FetchUrls(Tail(video_urls),
                            [video_cache |-> IF hit THEN acc.video_cache
                                             ELSE CachePut(acc.video_cache, video_id, title),
                             calls |-> IF hit THEN acc.calls
                                       ELSE Append(acc.calls, video_id),
                             video_metadata |->
                                Append(acc.video_metadata,
                                       [url |-> url, video_id |-> video_id,
                                        title |-> IF title # None THEN title
                                                  ELSE FALLBACK_TITLE])],
                            resolver)

\* A variant: the update also rewrites video_links, to the links that have
\* a video id.
FetchUpdateLinks(row, video_metadata) ==
    [row EXCEPT !.video_metadata = JsonText(video_metadata),
                !.video_links = SelectSeq(@, LAMBDA url : extract_video_id(url) # None)]

\* UPDATE positions SET video_metadata = ? WHERE fen = ?
FetchUpdate(row, video_metadata) ==
    [row EXCEPT !.video_metadata = JsonText(video_metadata)]

\* for idx, (fen, video_links_json) in enumerate(rows, 1)
RECURSIVE FetchRows(_, _, _, _)
FetchRows(fens, d, acc, resolver) ==
    IF fens = << >> THEN [database |-> d, calls |-> acc.calls]
    ELSE LET fen_  == Head(fens)
             done == FetchUrls(d.rows[fen_].video_links,
                               [acc EXCEPT !.video_metadata = << >>], resolver)
         IN  FetchRows(Tail(fens),
                       [d EXCEPT !.rows[fen_] = FetchUpdate(@, done.video_metadata)],
                       done, resolver)

\* 3_fetch_youtube_titles.py on a table: the column is added, and the rows
\* WHERE video_links != '[]' are updated
fetch_youtube_titles(d, resolver) ==
    FetchRows(SelectSeq(d.order, LAMBDA fen_ : d.rows[fen_].video_links # << >>),
              [d EXCEPT !.has_metadata = TRUE],
              [video_cache |-> << >>, calls |-> << >>, video_metadata |-> << >>],
              resolver)

\* A variant: only YouTube links are kept.
CleanedLinksYouTubeOnly(video_links) ==
    SelectSeq(video_links, LAMBDA link : extract_video_id(link) # None)

\* cleaned_links
CleanedLinks(video_links) ==
    SelectSeq(video_links, LAMBDA link : ~CHESS_URL_PATTERN(link))

\* the rows 4_clean_database.py updates: links_removed > 0
CleanWrites(d) ==
    {fen_ \in DOMAIN d.rows :
        Len(d.rows[fen_].video_links) - Len(CleanedLinks(d.rows[fen_].video_links)) > 0}

\* 4_clean_database.py on a table
clean_database(d) ==
    [d EXCEPT !.rows = [fen_ \in DOMAIN d.rows |->
                           IF fen_ \in CleanWrites(d)
                           THEN [d.rows[fen_] EXCEPT
                                    !.video_links = CleanedLinks(@)]
                           ELSE d.rows[fen_]]]

\* if video_metadata_json: a text is true unless it is NULL or empty, and
\* the text of a list is not empty
Truthy(text) == ~text.null

\* the videos of a position entry
ExportVideos(row) ==
    IF Truthy(row.video_metadata)
    THEN row.video_metadata.json
    ELSE [k \in DOMAIN row.video_links |->
             [url |-> row.video_links[k], video_id |-> None, title |-> None]]

\* 5_export_to_frontend_json.py on a table with the video_metadata column
export_to_frontend_json(d) ==
    [k \in DOMAIN d.order |->
        [fen |-> d.order[k],
         videos |-> ExportVideos(d.rows[d.order[k]]),
         next_by_daniel |-> d.rows[d.order[k]].next_moves_by_daniel,
         next_faced |-> d.rows[d.order[k]].next_moves_faced]]

PipeInit ==
    /\ database = NoDatabase
    /\ frontend_json = NoFile
    /\ rebuild = NoRebuild
    /\ lastRun = NoRun
    /\ csv_file = << >>
    /\ chess_api = NoApi
    /\ matcher = NewMatcher
    /\ BuildIdle

\* the outcome of a script run, for the record of the last run
RunOf(script, ok, written, calls, n) ==
    [script |-> script, ok |-> ok, written |-> written, calls |-> calls, n |-> n]

\* a script can be started by hand: rebuild_all is not running
Manual ==
    /\ rebuild.pc \in {"idle", "done", "aborted"}
    /\ lastRun.n < MaxRuns

\* python 2_build_database_from_games.py, with one game to read
RunBuild ==
    /\ Manual
    /\ \E g \in PipeGames : \E d \in build_database(database, g) :
          database' = d
    /\ lastRun' = RunOf("build", TRUE, {}, << >>, lastRun.n + 1)
    /\ UNCHANGED << csv_file, chess_api, matcher, frontend_json, rebuild >>
    /\ UNCHANGED buildVars

\* python 3_fetch_youtube_titles.py; without the table the SELECT raises
RunFetch ==
    /\ Manual
    /\ \E resolver \in [first : Responses, later : Responses] :
          IF database.exists
          THEN LET run == fetch_youtube_titles(database, resolver)
               IN  /\ database' = run.database
                   /\ lastRun' = RunOf("fetch", TRUE, {}, run.calls, lastRun.n + 1)
          ELSE /\ database' = database
               /\ lastRun' = RunOf("fetch", FALSE, {}, << >>, lastRun.n + 1)
    /\ UNCHANGED << csv_file, chess_api, matcher, frontend_json, rebuild >>
    /\ UNCHANGED buildVars

\* python 4_clean_database.py; without the table the SELECT raises
RunClean ==
    /\ Manual
    /\ IF database.exists
       THEN /\ database' = clean_database(database)
            /\ lastRun' = RunOf("clean", TRUE, CleanWrites(database), << >>, lastRun.n + 1)
       ELSE /\ database' = database
            /\ lastRun' = RunOf("clean", FALSE, {}, << >>, lastRun.n + 1)
    /\ UNCHANGED << csv_file, chess_api, matcher, frontend_json, rebuild >>
    /\ UNCHANGED buildVars

\* python 5_export_to_frontend_json.py; without the table or the
\* video_metadata column the SELECT raises and no file is written
RunExport ==
    /\ Manual
    /\ IF database.exists /\ database.has_metadata
       THEN /\ frontend_json' = [written |-> TRUE,
                                 positions |-> export_to_frontend_json(database)]
            /\ lastRun' = RunOf("export", TRUE, {}, << >>, lastRun.n + 1)
       ELSE /\ frontend_json' = frontend_json
            /\ lastRun' = RunOf("export", FALSE, {}, << >>, lastRun.n + 1)
    /\ UNCHANGED << csv_file, chess_api, matcher, database, rebuild >>
    /\ UNCHANGED buildVars

\* python rebuild_all.py
RebuildStart ==
    /\ Manual
    /\ rebuild' = [pc |-> "delete", steps |-> << >>, results |-> << >>]
    /\ lastRun' = RunOf("rebuild_all", TRUE, {}, << >>, lastRun.n + 1)
    /\ UNCHANGED << csv_file, chess_api, matcher, database, frontend_json >>
    /\ UNCHANGED buildVars

\* A variant: the steps go on after a failing one.
RebuildAfterIgnore(ok, next) == next

\* if not ...: return
RebuildAfter(ok, next) == IF ok THEN next ELSE "aborted"

\* main after a step: the step is recorded with its outcome
Stepped(step, ok, next) ==
    [pc |-> RebuildAfter(ok, next),
     steps |-> Append(rebuild.steps, step),
     results |-> Append(rebuild.results, ok)]

\* delete_database: the file is removed, or os.remove raises
RebuildDelete ==
    /\ rebuild.pc = "delete"
    /\ \E ok \in BOOLEAN :
          /\ database' = IF ok THEN NoDatabase ELSE database
          /\ rebuild' = Stepped("delete", ok, "build")
          /\ lastRun' = RunOf("delete", ok, {}, << >>, lastRun.n)
    /\ UNCHANGED << csv_file, chess_api, matcher, frontend_json >>
    /\ UNCHANGED buildVars

\* run_script("2_build_database_from_games.py"): the script succeeds, or
\* exits with an error before it writes
RebuildBuild ==
    /\ rebuild.pc = "build"
    /\ \E ok \in BOOLEAN :
          /\ IF ok
             THEN \E g \in PipeGames : \E d \in build_database(database, g) :
                     database' = d
             ELSE database' = database
          /\ rebuild' = Stepped("build", ok, "fetch")
          /\ lastRun' = RunOf("build", ok, {}, << >>, lastRun.n)
    /\ UNCHANGED << csv_file, chess_api, matcher, frontend_json >>
    /\ UNCHANGED buildVars

\* run_script("3_fetch_youtube_titles.py")
RebuildFetch ==
    /\ rebuild.pc = "fetch"
    /\ \E crash \in BOOLEAN, resolver \in [first : Responses, later : Responses] :
          IF database.exists /\ ~crash
          THEN LET run == fetch_youtube_titles(database, resolver)
               IN  /\ database' = run.database
                   /\ rebuild' = Stepped("fetch", TRUE, "clean")
                   /\ lastRun' = RunOf("fetch", TRUE, {}, run.calls, lastRun.n)
          ELSE /\ database' = database
               /\ rebuild' = Stepped("fetch", FALSE, "clean")
               /\ lastRun' = RunOf("fetch", FALSE, {}, << >>, lastRun.n)
    /\ UNCHANGED << csv_file, chess_api, matcher, frontend_json >>
    /\ UNCHANGED buildVars

\* run_script("4_clean_database.py")
RebuildClean ==
    /\ rebuild.pc = "clean"
    /\ \E crash \in BOOLEAN :
          IF database.exists /\ ~crash
          THEN /\ database' = clean_database(database)
               /\ rebuild' = Stepped("clean", TRUE, "export")
               /\ lastRun' = RunOf("clean", TRUE, CleanWrites(database), << >>, lastRun.n)
          ELSE /\ database' = database
               /\ rebuild' = Stepped("clean", FALSE, "export")
               /\ lastRun' = RunOf("clean", FALSE, {}, << >>, lastRun.n)
    /\ UNCHANGED << csv_file, chess_api, matcher, frontend_json >>
    /\ UNCHANGED buildVars

\* run_script("5_export_to_frontend_json.py")
RebuildExport ==
    /\ rebuild.pc = "export"
    /\ \E crash \in BOOLEAN :
          IF database.exists /\ database.has_metadata /\ ~crash
          THEN /\ frontend_json' = [written |-> TRUE,
                                    positions |-> export_to_frontend_json(database)]
               /\ rebuild' = Stepped("export", TRUE, "done")
               /\ lastRun' = RunOf("export", TRUE, {}, << >>, lastRun.n)
          ELSE /\ frontend_json' = frontend_json
               /\ rebuild' = Stepped("export", FALSE, "done")
               /\ lastRun' = RunOf("export", FALSE, {}, << >>, lastRun.n)
    /\ UNCHANGED << csv_file, chess_api, matcher, database >>
    /\ UNCHANGED buildVars

PipeNext ==
    \/ RunBuild
    \/ RunFetch
    \/ RunClean
    \/ RunExport
    \/ RebuildStart
    \/ RebuildDelete
    \/ RebuildBuild
    \/ RebuildFetch
    \/ RebuildClean
    \/ RebuildExport

SpecPipeline == PipeInit /\ [][PipeNext]_vars

----------------------------------------------------------------------------
(***************************************************************************)
(* Properties of the matcher, under SpecMatch.                             *)
(***************************************************************************)
\* the Chess.com URLs of the CSV rows that hold a game id, in file order
LoadedUrls == SelectSeq(csv_file, LAMBDA u : u \in GameIds)

\* the archives the search goes through
ArchivesUsed ==
    IF chess_api.listing.ok THEN chess_api.listing.archives ELSE FallbackArchives

\* the game id is the id of a game of an archive that was read
SeenInArchive(game_id) ==
    \E n \in DOMAIN ArchivesUsed :
        /\ chess_api.archive[ArchivesUsed[n]].ok
        /\ \E j \in DOMAIN chess_api.archive[ArchivesUsed[n]].games :
              chess_api.archive[ArchivesUsed[n]].games[j].url = game_id

\* C25: the matches are one per loaded CSV game, in CSV order; a match is
\* FOUND with the game's data exactly when its id is the id of a game of
\* an archive whose request succeeded, and NOT_FOUND with null otherwise;
\* every archive of the list is requested, a failing one included.
C25_OneMatchPerCsvGame ==
    matcher.pc = "done" =>
        /\ Len(matcher.matches) = Len(LoadedUrls)
        /\ \A k \in DOMAIN matcher.matches :
              LET match == matcher.matches[k]
              IN  /\ match.csv_game.chess_url = LoadedUrls[k]
                  /\ match.csv_game.game_id = LoadedUrls[k]
                  /\ IF SeenInArchive(LoadedUrls[k])
                     THEN /\ match.match_status = "FOUND"
                          /\ ~match.api_game.null
                          /\ match.api_game.url = LoadedUrls[k]
                     ELSE /\ match.match_status = "NOT_FOUND"
                          /\ match.api_game.null
        /\ LoadedUrls # << >> => matcher.requested = ArchivesUsed

\* the first archive failed, the second held a game of the CSV file, and
\* another game of the CSV file was in no archive
C25_Witness ==
    /\ matcher.pc = "done"
    /\ Len(matcher.matches) = 2
    /\ Len(matcher.requested) = 2
    /\ ~chess_api.archive[matcher.requested[1]].ok
    /\ \E k \in DOMAIN matcher.matches : matcher.matches[k].match_status = "FOUND"
    /\ \E k \in DOMAIN matcher.matches : matcher.matches[k].match_status = "NOT_FOUND"

----------------------------------------------------------------------------
(***************************************************************************)
(* Properties of the pipeline, under SpecPipeline.                         *)
(***************************************************************************)
\* the step is a run of the script, started by hand or by rebuild_all
Ran(script) ==
    /\ lastRun'.script = script
    /\ \/ lastRun'.n = lastRun.n + 1
       \/ Len(rebuild'.steps) = Len(rebuild.steps) + 1

\* the URLs of a list of video entries
UrlsOf(videos) == {videos[k].url : k \in DOMAIN videos}

\* the video entries the last title-fetch run wrote
FetchedEntries ==
    UNION {SetOf(database.rows[f].video_metadata.json) :
              f \in {g \in DOMAIN database.rows : database.rows[g].video_links # << >>}}

\* the order of the steps of rebuild_all
RebuildOrder == << "delete", "build", "fetch", "clean", "export" >>

\* C22: a title-fetch run, whatever the resolver answers, leaves the set
\* of positions, their order and every position's video_links,
\* next_moves_by_daniel and next_moves_faced as they were, and leaves the
\* exported file alone; it writes video_metadata only.
C22_FetchWritesMetadataOnly ==
    [][Ran("fetch") =>
          /\ database'.exists = database.exists
          /\ database'.order = database.order
          /\ DOMAIN database'.rows = DOMAIN database.rows
          /\ \A f \in DOMAIN database.rows :
                /\ database'.rows[f].video_links = database.rows[f].video_links
                /\ database'.rows[f].next_moves_by_daniel =
                      database.rows[f].next_moves_by_daniel
                /\ database'.rows[f].next_moves_faced =
                      database.rows[f].next_moves_faced
          /\ frontend_json' = frontend_json]_vars

\* a title-fetch run has written the metadata of a position whose links
\* are a video without a title, and a link that is no YouTube video
C22_Witness ==
    /\ lastRun.script = "fetch"
    /\ lastRun.ok
    /\ lastRun.calls # << >>
    /\ \E f \in DOMAIN database.rows :
          /\ Len(database.rows[f].video_links) >= 2
          /\ UrlsOf(database.rows[f].video_metadata.json) =
                SetOf(database.rows[f].video_links)
          /\ \E k \in DOMAIN database.rows[f].video_metadata.json :
                /\ database.rows[f].video_metadata.json[k].video_id # None
                /\ database.rows[f].video_metadata.json[k].title = FALLBACK_TITLE
          /\ \E k \in DOMAIN database.rows[f].video_metadata.json :
                database.rows[f].video_metadata.json[k].video_id = None

\* C23: rebuild_all starts its steps in the order delete, build, fetch,
\* clean, export, and starts a step only when every step before it has
\* succeeded: after a failing step it starts no other.
C23_StepsInOrderUntilFailure ==
    [][rebuild'.steps # rebuild.steps =>
          \/ rebuild'.steps = << >>
          \/ /\ Len(rebuild.steps) < Len(RebuildOrder)
             /\ rebuild'.steps =
                   Append(rebuild.steps, RebuildOrder[Len(rebuild.steps) + 1])
             /\ \A i \in DOMAIN rebuild.results : rebuild.results[i]]_vars

\* the title fetch failed after the delete and the build, and rebuild_all
\* returned
C23_Witness ==
    /\ rebuild.pc = "aborted"
    /\ rebuild.steps = << "delete", "build", "fetch" >>
    /\ rebuild.results = << TRUE, TRUE, FALSE >>
    /\ database.exists

C21_ExportReflectsIndex ==
    (lastRun.script = "export" /\ lastRun.ok) =>
        /\ Len(frontend_json.positions) = Len(database.order)
        /\ \A k \in DOMAIN frontend_json.positions :
              /\ frontend_json.positions[k].fen = database.order[k]
              /\ UrlsOf(frontend_json.positions[k].videos) =
                    SetOf(database.rows[database.order[k]].video_links)

\* C26: when rebuild_all has run its five steps, no video of the exported
\* file is a Chess.com game link.
C26_NoGameLinkExported ==
    (rebuild.pc = "done" /\ lastRun.script = "export" /\ lastRun.ok) =>
        \A k \in DOMAIN frontend_json.positions :
            \A j \in DOMAIN frontend_json.positions[k].videos :
                ~CHESS_URL_PATTERN(frontend_json.positions[k].videos[j].url)

\* C27: a title-fetch run asks the resolver at most once for a video id,
\* also when the answer was no title, and all the entries it wrote for
\* one video id carry the same title.
C27_OneLookupPerVideoId ==
    (lastRun.script = "fetch" /\ lastRun.ok) =>
        /\ \A i, j \in DOMAIN lastRun.calls :
              lastRun.calls[i] = lastRun.calls[j] => i = j
        /\ \A e1, e2 \in FetchedEntries :
              (e1.video_id # None /\ e1.video_id = e2.video_id) =>
                  e1.title = e2.title

\* the resolver was asked once and had no title, and two positions hold
\* the video
C27_Witness ==
    /\ lastRun.script = "fetch"
    /\ lastRun.ok
    /\ lastRun.calls = << "v1" >>
    /\ \E f, g \in DOMAIN database.rows :
          /\ f # g
          /\ \E k \in DOMAIN database.rows[f].video_metadata.json :
                /\ database.rows[f].video_metadata.json[k].video_id = "v1"
                /\ database.rows[f].video_metadata.json[k].title = FALLBACK_TITLE
          /\ \E k \in DOMAIN database.rows[g].video_metadata.json :
                /\ database.rows[g].video_metadata.json[k].video_id = "v1"
                /\ database.rows[g].video_metadata.json[k].title = FALLBACK_TITLE

=============================================================================
